---- MODULE Spec2Model ----
(***************************************************************************)
(* A model of the ai-news-briefing pipeline: the aggregator's fetch and    *)
(* de-duplication loop (src/src/aggregator.py), the summarizer client's    *)
(* parse / validate / fallback logic (src/src/summarizer.py) and the       *)
(* delivery step's configuration check and retry loop                      *)
(* (src/src/email_sender.py).                                              *)
(*                                                                         *)
(* Strings of the program are sequences of one-character strings, so that  *)
(* lower(), strip() and slicing are computed and not assumed.              *)
(***************************************************************************)
EXTENDS Integers, Sequences, FiniteSets, TLC

VARIABLES
    \* ---- aggregate_news (aggregator.py:254-286)
    aggPc,          \* "loop" while the fetcher loop runs, "done" after return
    fetcherIdx,     \* index into FETCHERS of the next fetcher to invoke
    fetched,        \* history: every item any fetcher returned, in order
    all_items,      \* aggregator.py:271
    seen_titles,    \* aggregator.py:272
    raised_fetchers,\* history: the indexes of the fetchers whose call raised
    \* ---- send_briefing (email_sender.py:195-315)
    sendPc,         \* "start", "loop", "returned", "raised"
    cfgArgs,        \* the three keyword arguments (None, "" or a value)
    cfgEnv,         \* the three environment variables (None, "" or a value)
    max_retries,    \* email_sender.py:202
    attempt,        \* the loop variable of email_sender.py:290
    outcomes,       \* history: the outcome of each send attempt made
    delays,         \* history: the argument of each time.sleep call
    last_exc,       \* email_sender.py:289
    sendRaised,     \* the exception send_briefing raised, or NoExc
    pdf_arg,        \* pdf_path: "none", or a path to a "missing" / "present" file
    msg_parts,      \* history: the parts attached to msg, in order
    output_path,    \* an output_path for the HTML side file is given
    html_written,   \* "no", "ok", "failed": the write of email_sender.py:267
    \* ---- categorize_and_summarize (summarizer.py:49-150)
    summPc,         \* "start", "returned", "raised"
    items,          \* the input item list
    llm_response,   \* the response of the external capability, or NoResponse
    api_called,     \* TRUE once client.messages.create was invoked
    summResult,     \* the Briefing returned (a JSON object value), or NoValue
    summRaised,     \* the name of the exception raised, or "none"
    has_api_key,    \* an API key is passed or ANTHROPIC_API_KEY is set
    \* ---- _fetch_feed and fetch_hackernews (aggregator.py:17-107)
    fetchPc,        \* "feed_start", "feed_done", "feed_failed", "hn_loop",
                    \* "hn_done"
    now_day,        \* datetime.now(), in whole days
    max_age_days,   \* the look-back window
    feed_entries,   \* feed.entries of the parsed feed
    feed_limit,     \* the limit argument of _fetch_feed
    feed_items,     \* the list _fetch_feed returns
    hn_kw,          \* index of the next keyword of aggregator.py:78
    hn_seen,        \* aggregator.py:76
    hn_results,     \* aggregator.py:75
    hn_out,         \* the list fetch_hackernews returns
    \* ---- generate_pdf and _build_story_card (pdf_generator.py)
    renderPc,       \* "card_start", "card_done", "top_loop", "top_done",
                    \* "doc_start", "doc_done"
    story,          \* the story dict passed to _build_story_card
    card,           \* the texts _build_story_card displays
    top_stories,    \* briefing["top_stories"]
    top_i,          \* the loop index of pdf_generator.py:550
    top_cards,      \* the texts displayed in the top-5 section
    categories,     \* briefing["categories"]
    toc_items,      \* the entries of the table of contents
    sections,       \* the category sections of the report, in order
    \* ---- main (main.py:87-171)
    mainPc,         \* "start", "summarize", "send", "returned"
    dry_run,        \* args.dry_run
    min_stories,    \* args.min_stories
    save_json,      \* args.save_json is given
    news_items,     \* the list aggregate_news returned
    agg_result,     \* "none", "returned", "raised": how aggregate_news ended
    json_written,   \* "no", "ok", "failed": the write of main.py:125
    render_result,  \* "none", "returned", "raised": how generate_pdf ended
    calls,          \* the steps invoked so far, in order
    exit_status,    \* the value main returns, NoExit before it returns
    \* ---- _build_news_text (summarizer.py:36-46)
    promptPc,       \* "start", "done"
    prompt_items,   \* the items passed to _build_news_text
    prompt_lines,   \* the list `lines` of summarizer.py:38
    news_text       \* the text _build_news_text returns

aggVars  == <<aggPc, fetcherIdx, fetched, all_items, seen_titles, raised_fetchers>>
sendArgs == <<cfgArgs, cfgEnv, max_retries, pdf_arg, output_path>>
sendVars == <<sendPc, sendArgs, attempt, outcomes, delays, last_exc, sendRaised,
              msg_parts, html_written>>
summVars == <<summPc, items, llm_response, api_called, summResult, summRaised,
              has_api_key>>
fetchVars == <<fetchPc, now_day, max_age_days, feed_entries, feed_limit,
               feed_items, hn_kw, hn_seen, hn_results, hn_out>>
renderVars == <<renderPc, story, card, top_stories, top_i, top_cards,
                categories, toc_items, sections>>
docVars    == <<categories, toc_items, sections>>
mainVars == <<mainPc, dry_run, min_stories, save_json, news_items, agg_result,
              json_written, render_result, calls, exit_status>>
promptVars == <<promptPc, prompt_items, prompt_lines, news_text>>
vars     == <<aggVars, sendVars, summVars, fetchVars, renderVars, mainVars,
              promptVars>>

\* the variables an action of one component leaves alone
notAggVars    == <<sendVars, summVars, fetchVars, renderVars, mainVars, promptVars>>
notSendVars   == <<aggVars, summVars, fetchVars, renderVars, mainVars, promptVars>>
notSummVars   == <<aggVars, sendVars, fetchVars, renderVars, mainVars, promptVars>>
notFetchVars  == <<aggVars, sendVars, summVars, renderVars, mainVars, promptVars>>
notRenderVars == <<aggVars, sendVars, summVars, fetchVars, mainVars, promptVars>>
notMainVars   == <<aggVars, fetchVars, renderVars, promptVars>>
notPromptVars == <<aggVars, sendVars, summVars, fetchVars, renderVars, mainVars>>

----------------------------------------------------------------------------
(* Strings *)

Min(a, b) == IF a < b THEN a ELSE b

\* s[:n] of Python, for n >= 0
Slice(s, n) == SubSeq(s, 1, Min(n, Len(s)))

\* the characters str.strip() removes
IsSpace(c) == c = " "

\* one character of str.lower()
LowerChar(c) == IF c = "A" THEN "a" ELSE IF c = "B" THEN "b" ELSE c

\* str.lower()
str_lower(s) == [i \in 1..Len(s) |-> LowerChar(s[i])]

RECURSIVE str_lstrip(_)
str_lstrip(s) ==
    IF s # <<>> /\ IsSpace(Head(s)) THEN str_lstrip(Tail(s)) ELSE s

RECURSIVE str_rstrip(_)
str_rstrip(s) ==
    IF s # <<>> /\ IsSpace(s[Len(s)])
    THEN str_rstrip(SubSeq(s, 1, Len(s) - 1))
    ELSE s

\* str.strip()
str_strip(s) == str_rstrip(str_lstrip(s))

----------------------------------------------------------------------------
(* aggregate_news *)

\* aggregator.py:261-269
FETCHERS == << "fetch_hackernews", "fetch_arxiv", "fetch_techcrunch",
               "fetch_verge", "fetch_mit_tech_review", "fetch_venturebeat",
               "fetch_wired" >>

\* the titles a fetcher may return
Titles == { <<>>, <<" ">>, <<"a">>, <<"A">>, <<"A", " ">>, <<"b">> }

\* the largest number of items all fetchers together return in one run
MaxFetched == 2

\* the sequences over S of length exactly n
RECURSIVE SeqsOfLen(_, _)
SeqsOfLen(S, n) ==
    IF n = 0 THEN { <<>> }
    ELSE { Append(s, x) : s \in SeqsOfLen(S, n - 1), x \in S }

\* the lists of titles a fetcher may return when `room` more items fit
TitleLists(room) == UNION { SeqsOfLen(Titles, n) : n \in 0..room }

\* the items of one fetcher's result: url is unique over the run
MkItems(titles, fetcher, base) ==
    [i \in 1..Len(titles) |->
        [title |-> titles[i], url |-> base + i, source |-> fetcher]]

\* aggregator.py:278
title_key(item) == str_strip(str_lower(item.title))

\* aggregator.py:277-281, the inner loop, without the seen-set test
RECURSIVE DedupKeepAll(_, _, _)
DedupKeepAll(its, acc, seen) ==
    IF its = <<>> THEN [all |-> acc, seen |-> seen]
    ELSE LET item == Head(its)
             key  == title_key(item)
         IN  IF key # <<>>
             THEN DedupKeepAll(Tail(its), Append(acc, item), seen \cup {key})
             ELSE DedupKeepAll(Tail(its), acc, seen)

\* aggregator.py:277-281 with insert(0, item) in place of append(item)
RECURSIVE DedupNewestFirst(_, _, _)
DedupNewestFirst(its, acc, seen) ==
    IF its = <<>> THEN [all |-> acc, seen |-> seen]
    ELSE LET item == Head(its)
             key  == title_key(item)
         IN  IF key # <<>> /\ key \notin seen
             THEN DedupNewestFirst(Tail(its), <<item>> \o acc, seen \cup {key})
             ELSE DedupNewestFirst(Tail(its), acc, seen)

\* aggregator.py:277-281 without the `title_key and` test
RECURSIVE DedupKeepBlank(_, _, _)
DedupKeepBlank(its, acc, seen) ==
    IF its = <<>> THEN [all |-> acc, seen |-> seen]
    ELSE LET item == Head(its)
             key  == title_key(item)
         IN  IF key \notin seen
             THEN DedupKeepBlank(Tail(its), Append(acc, item), seen \cup {key})
             ELSE DedupKeepBlank(Tail(its), acc, seen)

\* aggregator.py:277-281, the inner loop over one fetcher's items
RECURSIVE DedupItems(_, _, _)
DedupItems(its, acc, seen) ==
    IF its = <<>> THEN [all |-> acc, seen |-> seen]
    ELSE LET item == Head(its)
             key  == title_key(item)
         IN  IF key # <<>> /\ key \notin seen
             THEN DedupItems(Tail(its), Append(acc, item), seen \cup {key})
             ELSE DedupItems(Tail(its), acc, seen)

AggInit ==
    /\ aggPc = "loop"
    /\ fetcherIdx = 1
    /\ fetched = <<>>
    /\ all_items = <<>>
    /\ seen_titles = {}
    /\ raised_fetchers = {}

\* one iteration of aggregator.py:274-281 in which the fetcher returns
FetcherReturns ==
    /\ aggPc = "loop"
    /\ fetcherIdx <= Len(FETCHERS)
    /\ \E titles \in TitleLists(MaxFetched - Len(fetched)) :
         LET got == MkItems(titles, FETCHERS[fetcherIdx], Len(fetched))
             r   == DedupItems(got, all_items, seen_titles)
         IN  /\ fetched' = fetched \o got
             /\ all_items' = r.all
             /\ seen_titles' = r.seen
    /\ fetcherIdx' = fetcherIdx + 1
    /\ UNCHANGED <<aggPc, raised_fetchers>>
    /\ UNCHANGED notAggVars

\* aggregator.py:274-283 without the try/except: the exception ends the run
FetcherRaisesUncaught ==
    /\ aggPc = "loop"
    /\ fetcherIdx <= Len(FETCHERS)
    /\ aggPc' = "raised"
    /\ raised_fetchers' = raised_fetchers \cup {fetcherIdx}
    /\ UNCHANGED <<fetcherIdx, fetched, all_items, seen_titles>>
    /\ UNCHANGED notAggVars

\* one iteration of aggregator.py:274-283 in which the fetcher raises
FetcherRaises ==
    /\ aggPc = "loop"
    /\ fetcherIdx <= Len(FETCHERS)
    /\ fetcherIdx' = fetcherIdx + 1
    /\ raised_fetchers' = raised_fetchers \cup {fetcherIdx}
    /\ UNCHANGED <<aggPc, fetched, all_items, seen_titles>>
    /\ UNCHANGED notAggVars

\* aggregator.py:285-286
AggregateReturn ==
    /\ aggPc = "loop"
    /\ fetcherIdx > Len(FETCHERS)
    /\ aggPc' = "done"
    /\ UNCHANGED <<fetcherIdx, fetched, all_items, seen_titles, raised_fetchers>>
    /\ UNCHANGED notAggVars

----------------------------------------------------------------------------
(* send_briefing *)

\* the names of the three configuration values, email_sender.py:222-226
CONFIG_NAMES == << "RECIPIENT_EMAIL", "SENDER_EMAIL", "GMAIL_APP_PASSWORD" >>

ConfigNameSet == { CONFIG_NAMES[i] : i \in 1..Len(CONFIG_NAMES) }

\* a configuration value: Python's None, the empty string, or a non-empty one
PyNone == "<None>"
CfgValues == { PyNone, "", "value" }

\* the default of the max_retries parameter
DefaultMaxRetries == 3

\* the largest max_retries a caller passes (the smallest is -1)
MaxRetriesArg == 4

\* Python truthiness of a configuration value
Truthy(v) == v # PyNone /\ v # ""

\* Python's `a or b`
PyOr(a, b) == IF Truthy(a) THEN a ELSE b

\* email_sender.py:216-218: the argument, else os.environ.get(name)
Resolved(name) == PyOr(cfgArgs[name], cfgEnv[name])

\* the elements of sequence s that satisfy Keep, in order
RECURSIVE SelectNames(_, _)
SelectNames(s, keep) ==
    IF s = <<>> THEN <<>>
    ELSE IF Head(s) \in keep THEN <<Head(s)>> \o SelectNames(Tail(s), keep)
    ELSE SelectNames(Tail(s), keep)

\* email_sender.py:221-227 with the password left out of the list
MissingConfigNoPassword ==
    SelectNames(CONFIG_NAMES,
                { n \in ConfigNameSet \ {"GMAIL_APP_PASSWORD"} : ~Truthy(Resolved(n)) })

\* email_sender.py:221-227: the names whose resolved value is falsy
MissingConfig ==
    SelectNames(CONFIG_NAMES, { n \in ConfigNameSet : ~Truthy(Resolved(n)) })

\* 2 ** n, email_sender.py:307
RECURSIVE Pow2(_)
Pow2(n) == IF n <= 0 THEN 1 ELSE 2 * Pow2(n - 1)

\* email_sender.py:307 with a constant delay
BackoffConstant(k) == 2

\* email_sender.py:307
Backoff(k) == Pow2(k)

\* email_sender.py:306 with the test off by one
MayRetryOffByOne(k) == k <= max_retries

\* email_sender.py:306
MayRetry(k) == k < max_retries

\* pdf_path is None, or names a file that does not or does exist
PdfArgs == { "none", "missing", "present" }

\* email_sender.py:235-238 without the exists() test
PdfAttachedAnyPath == pdf_arg # "none"

\* email_sender.py:235-238 and 274: pdf_file is set
PdfAttached == pdf_arg = "present"

NoExc == [kind |-> "none", attempt |-> 0, names |-> <<>>]
Exc(kind, k) == [kind |-> kind, attempt |-> k, names |-> <<>>]

SendInit ==
    /\ sendPc = "start"
    /\ cfgArgs \in [ConfigNameSet -> CfgValues]
    /\ cfgEnv \in [ConfigNameSet -> CfgValues]
    /\ max_retries \in (0 - 1)..MaxRetriesArg
    /\ attempt = 0
    /\ outcomes = <<>>
    /\ delays = <<>>
    /\ last_exc = NoExc
    /\ sendRaised = NoExc
    /\ pdf_arg \in PdfArgs
    /\ msg_parts = <<>>
    /\ output_path \in BOOLEAN
    /\ html_written = "no"

\* email_sender.py:216-228: a configuration value is missing
SendConfigError ==
    /\ sendPc = "start"
    /\ MissingConfig # <<>>
    /\ sendPc' = "raised"
    /\ sendRaised' = [kind |-> "ValueError", attempt |-> 0, names |-> MissingConfig]
    /\ UNCHANGED <<sendArgs, msg_parts, html_written, attempt, outcomes, delays, last_exc>>
    /\ UNCHANGED notSendVars

\* email_sender.py:216-290 without the try/except of lines 264-271: a
\* failed write of the HTML side file ends send_briefing
SendBuildMessageHtmlFatal ==
    /\ sendPc = "start"
    /\ MissingConfig = <<>>
    /\ \/ /\ output_path
          /\ html_written' = "failed"
          /\ sendPc' = "raised"
          /\ sendRaised' = Exc("OSError", 0)
          /\ UNCHANGED <<attempt, last_exc, msg_parts>>
       \/ /\ html_written' = IF output_path THEN "ok" ELSE "no"
          /\ sendPc' = "loop"
          /\ attempt' = 1
          /\ last_exc' = NoExc
          /\ msg_parts' = IF PdfAttached THEN <<"body", "pdf">> ELSE <<"body">>
          /\ UNCHANGED sendRaised
    /\ UNCHANGED <<sendArgs, outcomes, delays>>
    /\ UNCHANGED notSendVars

\* email_sender.py:216-290: the configuration is complete, the message is
\* built, the HTML side file is written if asked for (a failure of the
\* write is logged and ignored) and the retry loop is entered
SendBuildMessage ==
    /\ sendPc = "start"
    /\ MissingConfig = <<>>
    /\ sendPc' = "loop"
    /\ attempt' = 1
    /\ last_exc' = NoExc
    /\ msg_parts' = IF PdfAttached THEN <<"body", "pdf">> ELSE <<"body">>
    /\ html_written' \in (IF output_path THEN {"ok", "failed"} ELSE {"no"})
    /\ UNCHANGED <<sendArgs, outcomes, delays, sendRaised>>
    /\ UNCHANGED notSendVars

\* email_sender.py:291-296: connect, login and sendmail succeed
AttemptSucceeds ==
    /\ sendPc = "loop"
    /\ attempt <= max_retries
    /\ outcomes' = Append(outcomes, "ok")
    /\ sendPc' = "returned"
    /\ UNCHANGED <<sendArgs, msg_parts, html_written, attempt, delays, last_exc, sendRaised>>
    /\ UNCHANGED notSendVars

\* email_sender.py:297-303 with the except clauses in the other order: the
\* authentication error is handled as any SMTPException
AttemptAuthErrorRetried ==
    /\ sendPc = "loop"
    /\ attempt <= max_retries
    /\ outcomes' = Append(outcomes, "auth")
    /\ last_exc' = [kind |-> "SMTPAuthenticationError", attempt |-> attempt, names |-> <<>>]
    /\ delays' = IF attempt < max_retries THEN Append(delays, 2 ^ attempt) ELSE delays
    /\ attempt' = attempt + 1
    /\ UNCHANGED <<sendPc, sendArgs, msg_parts, html_written, sendRaised>>
    /\ UNCHANGED notSendVars

\* email_sender.py:297-303: SMTPAuthenticationError is re-raised
AttemptAuthError ==
    /\ sendPc = "loop"
    /\ attempt <= max_retries
    /\ outcomes' = Append(outcomes, "auth")
    /\ sendPc' = "raised"
    /\ sendRaised' = Exc("SMTPAuthenticationError", attempt)
    /\ UNCHANGED <<sendArgs, msg_parts, html_written, attempt, delays, last_exc>>
    /\ UNCHANGED notSendVars

\* email_sender.py:304-312: any other SMTPException
AttemptSmtpError ==
    /\ sendPc = "loop"
    /\ attempt <= max_retries
    /\ outcomes' = Append(outcomes, "smtp")
    /\ last_exc' = Exc("SMTPException", attempt)
    /\ delays' = IF MayRetry(attempt) THEN Append(delays, Backoff(attempt)) ELSE delays
    /\ attempt' = attempt + 1
    /\ UNCHANGED <<sendPc, sendArgs, msg_parts, html_written, sendRaised>>
    /\ UNCHANGED notSendVars

\* email_sender.py:291-304: an exception that is no SMTPException (OSError
\* from the socket, ssl.SSLError) matches no except clause and propagates
AttemptOtherError ==
    /\ sendPc = "loop"
    /\ attempt <= max_retries
    /\ outcomes' = Append(outcomes, "oserror")
    /\ sendPc' = "raised"
    /\ sendRaised' = Exc("OSError", attempt)
    /\ UNCHANGED <<sendArgs, msg_parts, html_written, attempt, delays, last_exc>>
    /\ UNCHANGED notSendVars

\* email_sender.py:314-315: the loop is exhausted
SendLoopExit ==
    /\ sendPc = "loop"
    /\ attempt > max_retries
    /\ IF last_exc # NoExc
       THEN sendPc' = "raised" /\ sendRaised' = last_exc
       ELSE sendPc' = "returned" /\ UNCHANGED sendRaised
    /\ UNCHANGED <<sendArgs, msg_parts, html_written, attempt, outcomes, delays, last_exc>>
    /\ UNCHANGED notSendVars

----------------------------------------------------------------------------
(* JSON values and Python dicts *)

\* A JSON value is a record tagged by t: "str" (s, a sequence of characters),
\* "num", "null", "arr" (a, a sequence of values) or "obj" (o, a Python dict:
\* the sequence of its <<key, value>> pairs in insertion order).
JStr(s) == [t |-> "str", s |-> s]
JNum    == [t |-> "num"]
JNull   == [t |-> "null"]
JArr(a) == [t |-> "arr", a |-> a]
JObj(o) == [t |-> "obj", o |-> o]

\* k in d
DictHas(d, k) == \E i \in 1..Len(d) : d[i][1] = k

\* d[k]
DictGet(d, k) == d[CHOOSE i \in 1..Len(d) : d[i][1] = k][2]

\* d[k] = v
DictSet(d, k, v) ==
    IF DictHas(d, k)
    THEN [i \in 1..Len(d) |-> IF d[i][1] = k THEN <<k, v>> ELSE d[i]]
    ELSE Append(d, <<k, v>>)

\* d.setdefault(k, v)
DictSetDefault(d, k, v) == IF DictHas(d, k) THEN d ELSE Append(d, <<k, v>>)

\* the keys of d
DictKeys(d) == { d[i][1] : i \in 1..Len(d) }

----------------------------------------------------------------------------
(* categorize_and_summarize *)

\* summarizer.py:15-23
CATEGORIES == << "Research Breakthroughs", "Product Launches & Updates",
                 "Industry News & Business", "Policy, Safety & Ethics",
                 "Open Source & Developer Tools",
                 "Robotics & Autonomous Systems", "Other AI & Tech News" >>

\* summarizer.py:198
FALLBACK_ITEMS == 40

\* summarizer.py:212
FALLBACK_TOP == 5

\* summarizer.py:210
FALLBACK_REASON_CHARS == 150

\* summarizer.py:156
NO_SUMMARY == <<
    "N", "o", " ", "s", "u", "m", "m", "a", "r", "y", " ", "a",
    "v", "a", "i", "l", "a", "b", "l", "e", "." >>

\* summarizer.py:181
EMPTY_SUMMARY == <<
    "N", "o", " ", "n", "e", "w", "s", " ", "i", "t", "e", "m",
    "s", " ", "w", "e", "r", "e", " ", "a", "v", "a", "i", "l",
    "a", "b", "l", "e", " ", "t", "h", "i", "s", " ", "w", "e",
    "e", "k", "." >>

\* summarizer.py:201-204
FALLBACK_SUMMARY == <<
    "T", "h", "i", "s", " ", "w", "e", "e", "k", "'", "s", " ",
    "b", "r", "i", "e", "f", "i", "n", "g", " ", "c", "o", "n",
    "t", "a", "i", "n", "s", " ", "t", "h", "e", " ", "l", "a",
    "t", "e", "s", "t", " ", "A", "I", " ", "a", "n", "d", " ",
    "t", "e", "c", "h", " ", "n", "e", "w", "s", ".", " ", "A",
    "u", "t", "o", "m", "a", "t", "e", "d", " ", "s", "u", "m",
    "m", "a", "r", "i", "z", "a", "t", "i", "o", "n", " ", "e",
    "n", "c", "o", "u", "n", "t", "e", "r", "e", "d", " ", "a",
    "n", " ", "i", "s", "s", "u", "e", ";", " ", "s", "t", "o",
    "r", "i", "e", "s", " ", "a", "r", "e", " ", "l", "i", "s",
    "t", "e", "d", " ", "b", "e", "l", "o", "w", "." >>

\* summarizer.py:167-170 and 173-176
DEFAULT_TITLE  == << "U", "n", "t", "i", "t", "l", "e", "d" >>
DEFAULT_URL    == << "#" >>
DEFAULT_SOURCE == << "U", "n", "k", "n", "o", "w", "n" >>
DEFAULT_TEXT   == << >>

\* {cat: [] for cat in CATEGORIES}, summarizer.py:183 and 190
EmptyCategories == [i \in 1..Len(CATEGORIES) |-> <<CATEGORIES[i], JArr(<<>>)>>]

\* summarizer.py:179-184
empty_result ==
    JObj(<< <<"executive_summary", JStr(EMPTY_SUMMARY)>>,
            <<"top_stories", JArr(<<>>)>>,
            <<"categories", JObj(EmptyCategories)>> >>)

\* summarizer.py:192-197 and 206-211: one story dict of the fallback
FallbackStory(item, lastKey, lastVal) ==
    JObj(<< <<"title", JStr(item.title)>>,
            <<"url", JStr(item.url)>>,
            <<"source", JStr(item.source)>>,
            <<lastKey, JStr(lastVal)>> >>)

\* summarizer.py:187-215 with the reason left untruncated
fallback_result_long_reason(its) ==
    JObj(<< <<"executive_summary", JStr(FALLBACK_SUMMARY)>>,
            <<"top_stories",
              JArr([i \in 1..Min(FALLBACK_TOP, Len(its)) |->
                      FallbackStory(its[i], "reason", its[i].summary)])>>,
            <<"categories",
              JObj(DictSet(EmptyCategories, "Other AI & Tech News",
                   JArr([i \in 1..Min(FALLBACK_ITEMS, Len(its)) |->
                           FallbackStory(its[i], "summary", its[i].summary)])))>> >>)

\* summarizer.py:187-215
fallback_result(its) ==
    JObj(<< <<"executive_summary", JStr(FALLBACK_SUMMARY)>>,
            <<"top_stories",
              JArr([i \in 1..Min(FALLBACK_TOP, Len(its)) |->
                      FallbackStory(its[i], "reason",
                                    Slice(its[i].summary, FALLBACK_REASON_CHARS))])>>,
            <<"categories",
              JObj(DictSet(EmptyCategories, "Other AI & Tech News",
                   JArr([i \in 1..Min(FALLBACK_ITEMS, Len(its)) |->
                           FallbackStory(its[i], "summary", its[i].summary)])))>> >>)

\* the result of a step that may raise
Ok(v)      == [exc |-> "none", val |-> v]
Raises(e)  == [exc |-> e, val |-> <<>>]

\* summarizer.py:167-170 / 173-176 overwriting what the response supplied
StoryDefaultsOverwrite(d, lastKey) ==
    DictSet(DictSet(DictSet(DictSet(d,
        "title", JStr(DEFAULT_TITLE)),
        "url", JStr(DEFAULT_URL)),
        "source", JStr(DEFAULT_SOURCE)),
        lastKey, JStr(DEFAULT_TEXT))

\* summarizer.py:167-170 (lastKey "reason") and 173-176 (lastKey "summary")
StoryDefaults(d, lastKey) ==
    DictSetDefault(DictSetDefault(DictSetDefault(DictSetDefault(d,
        "title", JStr(DEFAULT_TITLE)),
        "url", JStr(DEFAULT_URL)),
        "source", JStr(DEFAULT_SOURCE)),
        lastKey, JStr(DEFAULT_TEXT))

\* summarizer.py:166-170 / 172-176: the loop over the stories of one list;
\* an entry that is no dict has no setdefault (AttributeError)
RECURSIVE ValidateStories(_, _)
ValidateStories(stories, lastKey) ==
    IF stories = <<>> THEN Ok(<<>>)
    ELSE IF Head(stories).t # "obj" THEN Raises("AttributeError")
    ELSE LET rest == ValidateStories(Tail(stories), lastKey)
         IN  IF rest.exc # "none" THEN rest
             ELSE Ok(<<JObj(StoryDefaults(Head(stories).o, lastKey))>> \o rest.val)

\* `for story in cat_items` (summarizer.py:172): a list yields its elements,
\* a string its characters, a dict its keys; a number or null is not iterable
Iterate(v) ==
    IF v.t = "arr" THEN Ok(v.a)
    ELSE IF v.t = "str" THEN Ok([i \in 1..Len(v.s) |-> JStr(<<v.s[i]>>)])
    ELSE IF v.t = "obj" THEN Ok([i \in 1..Len(v.o) |-> JStr(<<v.o[i][1]>>)])
    ELSE Raises("TypeError")

\* summarizer.py:172-176 for one value of the categories dict
ValidateCategoryValue(v) ==
    LET it == Iterate(v)
    IN  IF it.exc # "none" THEN it
        ELSE LET vs == ValidateStories(it.val, "summary")
             IN  IF vs.exc # "none" THEN vs
                 ELSE IF v.t = "arr" THEN Ok(JArr(vs.val)) ELSE Ok(v)

\* summarizer.py:171-176: the loop over result["categories"].values()
RECURSIVE ValidateCategories(_)
ValidateCategories(pairs) ==
    IF pairs = <<>> THEN Ok(<<>>)
    ELSE LET h == ValidateCategoryValue(Head(pairs)[2])
         IN  IF h.exc # "none" THEN h
             ELSE LET rest == ValidateCategories(Tail(pairs))
                  IN  IF rest.exc # "none" THEN rest
                      ELSE Ok(<< <<Head(pairs)[1], h.val>> >> \o rest.val)

\* summarizer.py:162-164 with the loop left out
AddMissingCategoriesSkipped(cats, i) == cats

\* summarizer.py:162-164: the loop over CATEGORIES from index i
RECURSIVE AddMissingCategories(_, _)
AddMissingCategories(cats, i) ==
    IF i > Len(CATEGORIES) THEN cats
    ELSE AddMissingCategories(DictSetDefault(cats, CATEGORIES[i], JArr(<<>>)), i + 1)

\* summarizer.py:153-176; a result that is no dict fails at the first
\* membership test or item assignment (TypeError)
validate_result(result) ==
    IF result.t # "obj" THEN Raises("TypeError")
    ELSE
    LET d1 == DictSetDefault(result.o, "executive_summary", JStr(NO_SUMMARY))
        d2 == IF ~DictHas(d1, "top_stories") \/ DictGet(d1, "top_stories").t # "arr"
              THEN DictSet(d1, "top_stories", JArr(<<>>)) ELSE d1
        d3 == IF ~DictHas(d2, "categories") \/ DictGet(d2, "categories").t # "obj"
              THEN DictSet(d2, "categories", JObj(<<>>)) ELSE d2
        c4 == AddMissingCategories(DictGet(d3, "categories").o, 1)
        tops == ValidateStories(DictGet(d3, "top_stories").a, "reason")
        cats == ValidateCategories(c4)
    IN  IF tops.exc # "none" THEN tops
        ELSE IF cats.exc # "none" THEN cats
        ELSE Ok(JObj(DictSet(DictSet(d3, "top_stories", JArr(tops.val)),
                             "categories", JObj(cats.val))))

----------------------------------------------------------------------------
(* The inputs of categorize_and_summarize *)

\* the longest input item list
MaxItems == 42

\* the longest item summary
MaxSummaryLen == 151

\* the largest number of top stories a well-formed response lists
MaxRespTop == 6

DIGITS == << "0", "1", "2", "3", "4", "5", "6", "7", "8", "9" >>

\* a summary of n characters of item i
SummaryText(i, n) ==
    [j \in 1..n |-> IF j = 1 THEN DIGITS[(i % 10) + 1] ELSE DIGITS[(j % 10) + 1]]

\* the i-th input item, all of whose fields differ from every other item's
NewsItem(i, n) ==
    [title   |-> [j \in 1..i |-> "t"],
     url     |-> [j \in 1..i |-> "u"],
     source  |-> [j \in 1..i |-> "s"],
     summary |-> SummaryText(i, n)]

SummaryLens == { 0, FALLBACK_REASON_CHARS, MaxSummaryLen }

\* a story object of a response with all four fields
RespStory(i, lastKey) ==
    JObj(<< <<"title", JStr([j \in 1..i |-> "r"])>>,
            <<"url", JStr(<<"h">>)>>,
            <<"source", JStr(<<"w">>)>>,
            <<lastKey, JStr(<<"y">>)>> >>)

\* a story object with only a title, and one whose title is null
PartialStory  == JObj(<< <<"title", JStr(<<"p">>)>> >>)
NullStory     == JObj(<< <<"title", JNull>>, <<"extra", JNum>> >>)

\* the response the prompt asks for, with k top stories
WellFormed(k) ==
    JObj(<< <<"executive_summary", JStr(<<"e">>)>>,
            <<"top_stories", JArr([i \in 1..k |-> RespStory(i, "reason")])>>,
            <<"categories",
              JObj(DictSet(DictSet(EmptyCategories,
                   "Research Breakthroughs",
                       JArr(<<RespStory(1, "summary"), RespStory(2, "summary")>>)),
                   "Other AI & Tech News", JArr(<<RespStory(3, "summary")>>)))>> >>)

\* JSON the capability may answer with that is not of the required shape
MalformedValues ==
    << JArr(<<>>),
       JArr(<<JStr(<<"x">>)>>),
       JNum,
       JNull,
       JStr(<<"o", "k">>),
       JObj(<<>>),
       JObj(<< <<"top_stories", JStr(<<"n">>)>>, <<"categories", JArr(<<>>)>> >>),
       JObj(<< <<"top_stories", JArr(<<PartialStory, NullStory>>)>>,
               <<"categories",
                 JObj(<< <<"Extra Category", JArr(<<RespStory(1, "summary")>>)>>,
                         <<"Research Breakthroughs", JArr(<<PartialStory>>)>> >>)>> >>),
       JObj(<< <<"top_stories", JArr(<<JStr(<<"x">>)>>)>> >>),
       JObj(<< <<"categories",
                 JObj(<< <<"Research Breakthroughs", JArr(<<JNum>>)>> >>)>> >>),
       JObj(<< <<"categories",
                 JObj(<< <<"Research Breakthroughs", JNull>> >>)>> >>),
       JObj(<< <<"categories",
                 JObj(<< <<"Other AI & Tech News", JStr(<<>>)>> >>)>> >>) >>

\* what client.messages.create produces: an API error, text json.loads
\* rejects, or text that parses to a JSON value
ApiError      == [kind |-> "api_error", parses |-> FALSE, value |-> JNull]
Unparsable    == [kind |-> "text", parses |-> FALSE, value |-> JNull]
Parsed(v)     == [kind |-> "text", parses |-> TRUE, value |-> v]
NoResponse    == [kind |-> "none", parses |-> FALSE, value |-> JNull]

Responses ==
    << ApiError, Unparsable >>
    \o [i \in 1..Len(MalformedValues) |-> Parsed(MalformedValues[i])]
    \o [k \in 1..(MaxRespTop + 1) |-> Parsed(WellFormed(k - 1))]

\* json.loads, summarizer.py:139
json_loads(text) ==
    IF text.parses THEN Ok(text.value) ELSE Raises("JSONDecodeError")

NoValue == JNull

SummInit ==
    /\ summPc = "start"
    /\ \E n \in 0..MaxItems, len \in SummaryLens :
         items = [i \in 1..n |-> NewsItem(i, len)]
    /\ llm_response = NoResponse
    /\ api_called = FALSE
    /\ summResult = NoValue
    /\ summRaised = "none"
    /\ has_api_key \in BOOLEAN

\* summarizer.py:62-68 with the key test ahead of the empty-list test
SummarizeEmptyKeyFirst ==
    /\ summPc = "start"
    /\ items = <<>>
    /\ IF has_api_key
       THEN summPc' = "returned" /\ summResult' = empty_result /\ UNCHANGED summRaised
       ELSE summPc' = "raised" /\ summRaised' = "ValueError" /\ UNCHANGED summResult
    /\ UNCHANGED <<items, llm_response, api_called, has_api_key>>
    /\ UNCHANGED notSummVars

\* summarizer.py:62-64
SummarizeEmpty ==
    /\ summPc = "start"
    /\ items = <<>>
    /\ summPc' = "returned"
    /\ summResult' = empty_result
    /\ UNCHANGED <<items, llm_response, api_called, summRaised, has_api_key>>
    /\ UNCHANGED notSummVars

\* summarizer.py:66-68
SummarizeNoKey ==
    /\ summPc = "start"
    /\ items # <<>>
    /\ ~has_api_key
    /\ summPc' = "raised"
    /\ summRaised' = "ValueError"
    /\ UNCHANGED <<items, llm_response, api_called, summResult, has_api_key>>
    /\ UNCHANGED notSummVars

\* summarizer.py:70-150 with an API key present
SummarizeCall ==
    /\ summPc = "start"
    /\ items # <<>>
    /\ has_api_key
    /\ api_called' = TRUE
    /\ \E r \in 1..Len(Responses) :
         LET resp   == Responses[r]
             loaded == json_loads(resp)
             valid  == validate_result(loaded.val)
         IN  /\ llm_response' = resp
             /\ IF resp.kind = "api_error"
                THEN \* summarizer.py:148-150
                     /\ summPc' = "raised"
                     /\ summRaised' = "APIError"
                     /\ UNCHANGED summResult
                ELSE IF loaded.exc # "none"
                THEN \* summarizer.py:144-147
                     /\ summPc' = "returned"
                     /\ summResult' = fallback_result(items)
                     /\ UNCHANGED summRaised
                ELSE IF valid.exc # "none"
                THEN \* no except clause matches
                     /\ summPc' = "raised"
                     /\ summRaised' = valid.exc
                     /\ UNCHANGED summResult
                ELSE \* summarizer.py:140-142
                     /\ summPc' = "returned"
                     /\ summResult' = valid.val
                     /\ UNCHANGED summRaised
    /\ UNCHANGED <<items, has_api_key>>
    /\ UNCHANGED notSummVars

----------------------------------------------------------------------------
(* _fetch_feed and fetch_hackernews.  Time is counted in whole days. *)

\* the largest look-back window
MaxAgeDays == 2

\* the longest feed, and the most hits of one API response
MaxEntries == 3
MaxHits == 2

\* the largest limit passed to _fetch_feed
MaxLimit == 2

\* aggregator.py:78: keywords[:6]
HN_KEYWORDS_USED == 6

\* aggregator.py:64: the default limit of fetch_hackernews
HN_LIMIT == 30

\* a publish time: absent (published_parsed is None) or a day
NoTime      == [known |-> FALSE, day |-> 0]
TimeAt(d)   == [known |-> TRUE, day |-> d]

\* the day of a run, late enough for every age up to MaxAgeDays + 1
RunDay == MaxAgeDays + 1

\* the publish times of the entries of a feed and of the hits of the API:
\* none, or a day from RunDay - (MaxAgeDays + 1) to the day after RunDay
PublishTimes == { NoTime } \cup { TimeAt(d) : d \in 0..(RunDay + 1) }

\* aggregator.py:17-22 with an entry without a time taken as too old
age_days_unknown_is_old(published_parsed) ==
    IF ~published_parsed.known THEN max_age_days + 1
    ELSE now_day - published_parsed.day

\* aggregator.py:17-22
age_days(published_parsed) ==
    IF ~published_parsed.known THEN 0
    ELSE now_day - published_parsed.day

\* aggregator.py:32-44: the loop over the entries, with its break
RECURSIVE FeedLoop(_, _)
FeedLoop(entries, acc) ==
    IF entries = <<>> THEN acc
    ELSE IF age_days(Head(entries).published_parsed) > max_age_days
         THEN FeedLoop(Tail(entries), acc)
         ELSE LET acc2 == Append(acc, [url |-> Head(entries).link,
                                       published |-> Head(entries).published_parsed])
              IN  IF Len(acc2) >= feed_limit THEN acc2
                  ELSE FeedLoop(Tail(entries), acc2)

\* the feeds of n entries: entry i has link i and any publish time
Feeds(n) ==
    { [i \in 1..n |-> [link |-> i, published_parsed |-> ts[i]]] :
        ts \in [1..n -> PublishTimes] }

\* the API responses of at most n hits: any url of two, any creation day
HitLists(n) ==
    UNION { [1..k -> { [url |-> u, published |-> TimeAt(d)] :
                          u \in 1..2, d \in {0, RunDay} }] : k \in 0..n }

FetchInit ==
    /\ now_day = RunDay
    /\ max_age_days \in 0..MaxAgeDays
    /\ feed_items = <<>>
    /\ hn_seen = {} /\ hn_results = <<>> /\ hn_out = <<>>
    /\ \/ /\ fetchPc = "feed_start"
          /\ feed_limit \in 1..MaxLimit
          /\ feed_entries \in UNION { Feeds(n) : n \in 0..MaxEntries }
          /\ hn_kw = 0
       \/ /\ fetchPc = "hn_loop"
          /\ feed_limit = 0
          /\ feed_entries = <<>>
          /\ hn_kw = 1

\* aggregator.py:27-46
FetchFeed ==
    /\ fetchPc = "feed_start"
    /\ feed_items' = FeedLoop(Slice(feed_entries, feed_limit * 2), <<>>)
    /\ fetchPc' = "feed_done"
    /\ UNCHANGED <<now_day, max_age_days, feed_entries, feed_limit,
                   hn_kw, hn_seen, hn_results, hn_out>>
    /\ UNCHANGED notFetchVars

\* aggregator.py:47-49: parsing raised
FetchFeedFails ==
    /\ fetchPc = "feed_start"
    /\ feed_items' = <<>>
    /\ fetchPc' = "feed_failed"
    /\ UNCHANGED <<now_day, max_age_days, feed_entries, feed_limit,
                   hn_kw, hn_seen, hn_results, hn_out>>
    /\ UNCHANGED notFetchVars

\* aggregator.py:89-100: the hits of one response, new urls appended
RECURSIVE HnAppend(_, _, _)
HnAppend(hits, results, seen) ==
    IF hits = <<>> THEN [results |-> results, seen |-> seen]
    ELSE IF Head(hits).url \in seen THEN HnAppend(Tail(hits), results, seen)
    ELSE HnAppend(Tail(hits), Append(results, Head(hits)),
                  seen \cup {Head(hits).url})

\* one iteration of aggregator.py:78-103: the API answers with hits; the
\* age filter is part of the query (line 84) and the answer is taken as is
HnKeywordReturns ==
    /\ fetchPc = "hn_loop"
    /\ hn_kw <= HN_KEYWORDS_USED
    /\ \E hits \in HitLists(MaxHits) :
         LET r == HnAppend(hits, hn_results, hn_seen)
         IN  hn_results' = r.results /\ hn_seen' = r.seen
    /\ hn_kw' = hn_kw + 1
    /\ UNCHANGED <<fetchPc, now_day, max_age_days, feed_entries, feed_limit,
                   feed_items, hn_out>>
    /\ UNCHANGED notFetchVars

\* one iteration of aggregator.py:78-103: the request or its status raises
\* (a raise in the middle of the hits leaves the state HnKeywordReturns
\* reaches with the hits before it)
HnKeywordRaises ==
    /\ fetchPc = "hn_loop"
    /\ hn_kw <= HN_KEYWORDS_USED
    /\ hn_kw' = hn_kw + 1
    /\ UNCHANGED <<fetchPc, now_day, max_age_days, feed_entries, feed_limit,
                   feed_items, hn_seen, hn_results, hn_out>>
    /\ UNCHANGED notFetchVars

\* aggregator.py:106-107
HnReturn ==
    /\ fetchPc = "hn_loop"
    /\ hn_kw > HN_KEYWORDS_USED
    /\ hn_out' = Slice(hn_results, HN_LIMIT)
    /\ fetchPc' = "hn_done"
    /\ UNCHANGED <<now_day, max_age_days, feed_entries, feed_limit,
                   feed_items, hn_kw, hn_seen, hn_results>>
    /\ UNCHANGED notFetchVars

----------------------------------------------------------------------------
(* generate_pdf (top-5 section) and _build_story_card *)

\* pdf_generator.py:796, 797, 785
CARD_TITLE_CHARS   == 120
CARD_SUMMARY_CHARS == 280
CARD_SOURCE_CHARS  == 22

\* pdf_generator.py:550, 570
TOP_STORIES_SHOWN == 5
TOP_SOURCE_CHARS  == 20

\* the one character U+2026 appended to a truncated text,
\* pdf_generator.py:796
ELLIPSIS == "U+2026"

\* the longest title and summary of a story, and the longest top_stories
MaxTitleLen     == 122
MaxCardSummLen  == 282
MaxTopStories   == 6

\* pdf_generator.py:86-97: source name -> (text colour, badge background)
SOURCE_COLORS == <<
    << << "H", "a", "c", "k", "e", "r", " ", "N", "e", "w", "s" >>,
       << "#FF6600", "#FFE5CC" >> >>,
    << << "A", "r", "X", "i", "v" >>,
       << "#0066CC", "#CCE5FF" >> >>,
    << << "A", "r", "X", "i", "v", " ", "c", "s", ".", "A", "I" >>,
       << "#0066CC", "#CCE5FF" >> >>,
    << << "A", "r", "X", "i", "v", " ", "c", "s", ".", "L", "G" >>,
       << "#0066CC", "#CCE5FF" >> >>,
    << << "A", "r", "X", "i", "v", " ", "c", "s", ".", "C", "L" >>,
       << "#0066CC", "#CCE5FF" >> >>,
    << << "T", "e", "c", "h", "C", "r", "u", "n", "c", "h" >>,
       << "#00CC66", "#CCFFDD" >> >>,
    << << "T", "h", "e", " ", "V", "e", "r", "g", "e" >>,
       << "#9966CC", "#E5CCFF" >> >>,
    << << "M", "I", "T", " ", "T", "e", "c", "h", "n", "o", "l", "o", "g", "y", " ", "R", "e", "v", "i", "e", "w" >>,
       << "#CC3333", "#FFCCCC" >> >>,
    << << "V", "e", "n", "t", "u", "r", "e", "B", "e", "a", "t" >>,
       << "#FFAA00", "#FFF5CC" >> >>,
    << << "W", "i", "r", "e", "d" >>,
       << "#0099AA", "#CCFFFF" >> >> >>

\* pdf_generator.py:47, 49 and the default of line 554 and 779
DARK_GRAY     == "#374151"
LIGHT_GRAY    == "#E5E7EB"
DEFAULT_COLORS == << DARK_GRAY, LIGHT_GRAY >>

\* pdf_generator.py:99-105
TOP_STORY_COLORS == <<
    << "#B45309", "#FEF3C7" >>,
    << "#4338CA", "#EDE9FE" >>,
    << "#065F46", "#D1FAE5" >>,
    << "#C2410C", "#FFEDD5" >>,
    << "#6B21A8", "#F3E8FF" >> >>

\* source names of the stories: two of the palette, one that differs from a
\* palette name in case only, and one unknown
SRC_HACKER_NEWS == << "H", "a", "c", "k", "e", "r", " ", "N", "e", "w", "s" >>
SRC_WIRED       == << "W", "i", "r", "e", "d" >>
SRC_LOWER_WIRED == << "w", "i", "r", "e", "d" >>
SRC_OTHER       == << "w" >>

\* d.get(k, default)
DictGetOr(d, k, default) == IF DictHas(d, k) THEN DictGet(d, k) ELSE default

\* a text of n characters
RenderText(n) == [j \in 1..n |-> DIGITS[(j % 10) + 1]]

\* a story dict from source src; a length of -1 leaves the key out
StoryFrom(src, titleLen, summaryLen) ==
    (IF titleLen < 0 THEN <<>> ELSE << <<"title", RenderText(titleLen)>> >>)
    \o << <<"source", src>>, <<"url", <<"h">>>> >>
    \o (IF summaryLen < 0 THEN <<>> ELSE << <<"summary", RenderText(summaryLen)>> >>)

\* a story dict without a source
StoryNoSource(titleLen, summaryLen) ==
    << <<"title", RenderText(titleLen)>>, <<"url", <<"h">>>>,
       <<"summary", RenderText(summaryLen)>> >>

\* the sources of the stories of the cards
CardSources == { SRC_HACKER_NEWS, SRC_WIRED, SRC_LOWER_WIRED, SRC_OTHER }

\* the top stories: a short title from a palette source, a title at the
\* limit from an unknown source, a title over the limit from another
\* palette source
TopStoryKinds ==
    { StoryFrom(SRC_HACKER_NEWS, 1, 1),
      StoryFrom(SRC_OTHER, CARD_TITLE_CHARS, 1),
      StoryFrom(SRC_WIRED, CARD_TITLE_CHARS + 1, 1) }

\* the summary lengths of the stories: none, short, and around the limit
CardSummaryLens == {-1, 0, 1} \cup ((CARD_SUMMARY_CHARS - 1)..MaxCardSummLen)

NoCard == [title_display |-> <<>>, summary_display |-> <<>>, src_display |-> <<>>,
           src_colors |-> << "none", "none" >>]

\* the most stories of a category
MaxCatStories == 3

\* the orders in which a briefing holds three of the categories
CatOrders == { <<1, 2, 3>>, <<3, 1, 2>> }

\* story j of category c, its title unlike that of any other story
CatStory(c, j) == StoryFrom(SRC_OTHER, c * (MaxCatStories + 1) + j, 1)

\* the dicts of categories: three categories in one of the orders, each
\* with any number of stories, none included
CategoryDicts ==
    { [p \in 1..3 |-> << CATEGORIES[ord[p]],
                         [j \in 1..cnt[p] |-> CatStory(ord[p], j)] >>] :
        ord \in CatOrders, cnt \in [1..3 -> 0..MaxCatStories] }

RenderInit ==
    /\ card = NoCard
    /\ top_cards = <<>>
    /\ top_i = 0
    /\ toc_items = <<>>
    /\ sections = <<>>
    /\ \/ /\ renderPc = "doc_start"
          /\ story = <<>>
          /\ top_stories = <<>>
          /\ categories \in CategoryDicts
       \/ /\ renderPc = "card_start"
          /\ categories = <<>>
          /\ story \in { StoryFrom(src, t, u) : src \in CardSources,
                                                t \in (-1)..MaxTitleLen,
                                                u \in CardSummaryLens }
                       \cup { StoryNoSource(1, 1) }
          /\ top_stories = <<>>
       \/ /\ renderPc = "top_loop"
          /\ categories = <<>>
          /\ story = <<>>
          /\ top_stories \in
               UNION { [1..n -> TopStoryKinds] : n \in 0..MaxTopStories }

\* s[:n] + ("\u2026" if len(s) >= n else "")
TruncateAtLimit(s, n) ==
    Slice(s, n) \o (IF Len(s) >= n THEN <<ELLIPSIS>> ELSE <<>>)

\* s[:n] + ("\u2026" if len(s) > n else ""), pdf_generator.py:796-797
Truncate(s, n) ==
    Slice(s, n) \o (IF Len(s) > n THEN <<ELLIPSIS>> ELSE <<>>)

\* SOURCE_COLORS.get(src, ...) with the first palette entry as default
source_colors_first_default(src) ==
    DictGetOr(SOURCE_COLORS, src, SOURCE_COLORS[1][2])

\* pdf_generator.py:554 and 779: SOURCE_COLORS.get(src, (DARK_GRAY, LIGHT_GRAY))
source_colors(src) == DictGetOr(SOURCE_COLORS, src, DEFAULT_COLORS)

\* pdf_generator.py:551: TOP_STORY_COLORS[i % len(TOP_STORY_COLORS)]
top_story_colors(i) == TOP_STORY_COLORS[(i % Len(TOP_STORY_COLORS)) + 1]

\* pdf_generator.py:776-797: the texts and colours of one category card
build_story_card(st) ==
    LET src     == DictGetOr(st, "source", DEFAULT_SOURCE)
        title   == DictGetOr(st, "title", DEFAULT_TITLE)
        summary == DictGetOr(st, "summary", DEFAULT_TEXT)
    IN  [title_display   |-> Truncate(title, CARD_TITLE_CHARS),
         summary_display |-> Truncate(summary, CARD_SUMMARY_CHARS),
         src_display     |-> IF Len(src) > CARD_SOURCE_CHARS
                             THEN Slice(src, CARD_SOURCE_CHARS)
                             ELSE src,
         src_colors      |-> source_colors(src)]

\* pdf_generator.py:776-797: one call of _build_story_card
BuildStoryCard ==
    /\ renderPc = "card_start"
    /\ card' = build_story_card(story)
    /\ renderPc' = "card_done"
    /\ UNCHANGED <<story, top_stories, top_i, top_cards, docVars>>
    /\ UNCHANGED notRenderVars

\* one iteration of pdf_generator.py:550-589: the texts of one top story
RenderTopStory ==
    /\ renderPc = "top_loop"
    /\ top_i < Len(Slice(top_stories, TOP_STORIES_SHOWN))
    /\ LET st == top_stories[top_i + 1]
       IN  top_cards' = Append(top_cards,
             [badge_num   |-> top_i + 1,
              colors      |-> top_story_colors(top_i),
              src_colors  |-> source_colors(DictGetOr(st, "source", DEFAULT_SOURCE)),
              src_display |-> Slice(DictGetOr(st, "source", DEFAULT_SOURCE),
                                    TOP_SOURCE_CHARS),
              title_text  |-> DictGetOr(st, "title", DEFAULT_TITLE),
              reason_text |-> DictGetOr(st, "reason", DEFAULT_TEXT)])
    /\ top_i' = top_i + 1
    /\ UNCHANGED <<renderPc, story, card, top_stories, docVars>>
    /\ UNCHANGED notRenderVars

\* the loop of pdf_generator.py:550 ends
RenderTopDone ==
    /\ renderPc = "top_loop"
    /\ top_i >= Len(Slice(top_stories, TOP_STORIES_SHOWN))
    /\ renderPc' = "top_done"
    /\ UNCHANGED <<story, card, top_stories, top_i, top_cards, docVars>>
    /\ UNCHANGED notRenderVars

----------------------------------------------------------------------------
(* main: aggregate, check the minimum, summarize, render, send *)

\* the most items aggregate_news returns, and the largest --min-stories
MaxNews       == 3
MaxMinStories == 2

\* exit_status before main returns
NoExit == 0 - 1

\* the environment of a run of main: every setting present, or all but the
\* password
FullEnv  == [n \in ConfigNameSet |-> "value"]
MainEnvs == { FullEnv, [FullEnv EXCEPT !["GMAIL_APP_PASSWORD"] = PyNone] }

\* main before its first step; categorize_and_summarize and send_briefing
\* are not yet called; output_path holds args.output, which main passes on
\* to send_briefing (main.py:163)
MainInit ==
    /\ mainPc = "start"
    /\ dry_run \in BOOLEAN
    /\ min_stories \in 0..MaxMinStories
    /\ save_json \in BOOLEAN
    /\ news_items = <<>> /\ agg_result = "none"
    /\ json_written = "no" /\ render_result = "none"
    /\ calls = <<>> /\ exit_status = NoExit
    /\ summPc = "idle" /\ items = <<>> /\ llm_response = NoResponse
    /\ api_called = FALSE /\ summResult = NoValue /\ summRaised = "none"
    /\ has_api_key \in BOOLEAN
    /\ sendPc = "idle"
    /\ cfgArgs = [n \in ConfigNameSet |-> PyNone]
    /\ cfgEnv \in MainEnvs
    /\ max_retries = DefaultMaxRetries
    /\ pdf_arg = "none"
    /\ output_path \in BOOLEAN
    /\ html_written = "no"
    /\ attempt = 0 /\ outcomes = <<>> /\ delays = <<>>
    /\ last_exc = NoExc /\ sendRaised = NoExc /\ msg_parts = <<>>

\* main.py:98-102: aggregate_news raises
MainAggregateRaises ==
    /\ mainPc = "start"
    /\ calls' = Append(calls, "aggregate")
    /\ agg_result' = "raised"
    /\ exit_status' = 1
    /\ mainPc' = "returned"
    /\ UNCHANGED <<dry_run, min_stories, save_json, news_items, json_written,
                   render_result>>
    /\ UNCHANGED <<sendVars, summVars>>
    /\ UNCHANGED notMainVars

\* main.py:104 with <= for <
TooFewOrEqual(n) == n <= min_stories

\* main.py:104
TooFew(n) == n < min_stories

\* main.py:98-110: aggregate_news returns fewer items than the minimum
MainTooFewStories ==
    /\ mainPc = "start"
    /\ \E n \in 0..MaxNews :
         /\ TooFew(n)
         /\ news_items' = [i \in 1..n |-> NewsItem(i, 1)]
    /\ calls' = Append(calls, "aggregate")
    /\ agg_result' = "returned"
    /\ exit_status' = 1
    /\ mainPc' = "returned"
    /\ UNCHANGED <<dry_run, min_stories, save_json, json_written, render_result>>
    /\ UNCHANGED <<sendVars, summVars>>
    /\ UNCHANGED notMainVars

\* main.py:98-117: aggregate_news returns enough items and
\* categorize_and_summarize is called with them
MainCallSummarize ==
    /\ mainPc = "start"
    /\ \E n \in 0..MaxNews :
         /\ ~TooFew(n)
         /\ news_items' = [i \in 1..n |-> NewsItem(i, 1)]
    /\ calls' = calls \o <<"aggregate", "summarize">>
    /\ agg_result' = "returned"
    /\ items' = news_items'
    /\ summPc' = "start"
    /\ mainPc' = "summarize"
    /\ UNCHANGED <<dry_run, min_stories, save_json, json_written, render_result,
                   exit_status>>
    /\ UNCHANGED <<llm_response, api_called, summResult, summRaised, has_api_key>>
    /\ UNCHANGED sendVars
    /\ UNCHANGED notMainVars

\* main.py:118-120 without the return: the run goes on to rendering
MainSummarizeFailedGoesOn ==
    /\ mainPc = "summarize"
    /\ summPc = "raised"
    /\ calls' = Append(calls, "render")
    /\ render_result' = "returned"
    /\ exit_status' = 0
    /\ mainPc' = "returned"
    /\ UNCHANGED <<dry_run, min_stories, save_json, news_items, agg_result,
                   json_written>>
    /\ UNCHANGED <<sendVars, summVars>>
    /\ UNCHANGED notMainVars

\* main.py:118-120: categorize_and_summarize raised
MainSummarizeFailed ==
    /\ mainPc = "summarize"
    /\ summPc = "raised"
    /\ exit_status' = 1
    /\ mainPc' = "returned"
    /\ UNCHANGED <<dry_run, min_stories, save_json, news_items, agg_result,
                   json_written, render_result, calls>>
    /\ UNCHANGED <<sendVars, summVars>>
    /\ UNCHANGED notMainVars

\* main.py:123-130: the optional dump of the briefing, whose failure is
\* logged and ignored
SaveJson ==
    IF save_json THEN json_written' \in {"ok", "failed"}
    ELSE json_written' = json_written

\* main.py:122-146: categorize_and_summarize returned, generate_pdf raises
MainRenderFails ==
    /\ mainPc = "summarize"
    /\ summPc = "returned"
    /\ SaveJson
    /\ calls' = Append(calls, "render")
    /\ render_result' = "raised"
    /\ exit_status' = 1
    /\ mainPc' = "returned"
    /\ UNCHANGED <<dry_run, min_stories, save_json, news_items, agg_result>>
    /\ UNCHANGED <<sendVars, summVars>>
    /\ UNCHANGED notMainVars

\* main.py:122-163 without the test of args.dry_run: a dry run sends too
MainDryRunStillSends ==
    /\ mainPc = "summarize"
    /\ summPc = "returned"
    /\ dry_run
    /\ SaveJson
    /\ calls' = calls \o <<"render", "send">>
    /\ render_result' = "returned"
    /\ pdf_arg' = "present"
    /\ sendPc' = "start"
    /\ mainPc' = "send"
    /\ UNCHANGED <<dry_run, min_stories, save_json, news_items, agg_result,
                   exit_status>>
    /\ UNCHANGED <<cfgArgs, cfgEnv, max_retries, output_path, attempt, outcomes,
                   delays, last_exc, sendRaised, msg_parts, html_written>>
    /\ UNCHANGED summVars
    /\ UNCHANGED notMainVars

\* main.py:122-159, 168-171: generate_pdf returns and the run is a dry run
MainDryRun ==
    /\ mainPc = "summarize"
    /\ summPc = "returned"
    /\ dry_run
    /\ SaveJson
    /\ calls' = Append(calls, "render")
    /\ render_result' = "returned"
    /\ exit_status' = 0
    /\ mainPc' = "returned"
    /\ UNCHANGED <<dry_run, min_stories, save_json, news_items, agg_result>>
    /\ UNCHANGED <<sendVars, summVars>>
    /\ UNCHANGED notMainVars

\* main.py:122-163: generate_pdf returns and send_briefing is called with
\* the path of the file it wrote
MainCallSend ==
    /\ mainPc = "summarize"
    /\ summPc = "returned"
    /\ ~dry_run
    /\ SaveJson
    /\ calls' = calls \o <<"render", "send">>
    /\ render_result' = "returned"
    /\ pdf_arg' = "present"
    /\ sendPc' = "start"
    /\ mainPc' = "send"
    /\ UNCHANGED <<dry_run, min_stories, save_json, news_items, agg_result,
                   exit_status>>
    /\ UNCHANGED <<cfgArgs, cfgEnv, max_retries, output_path, attempt, outcomes,
                   delays, last_exc, sendRaised, msg_parts, html_written>>
    /\ UNCHANGED summVars
    /\ UNCHANGED notMainVars

\* main.py:164-166 returning 0
MainSendFailedIgnored ==
    /\ mainPc = "send"
    /\ sendPc = "raised"
    /\ exit_status' = 0
    /\ mainPc' = "returned"
    /\ UNCHANGED <<dry_run, min_stories, save_json, news_items, agg_result,
                   json_written, render_result, calls>>
    /\ UNCHANGED <<sendVars, summVars>>
    /\ UNCHANGED notMainVars

\* main.py:164-166: send_briefing raised
MainSendFailed ==
    /\ mainPc = "send"
    /\ sendPc = "raised"
    /\ exit_status' = 1
    /\ mainPc' = "returned"
    /\ UNCHANGED <<dry_run, min_stories, save_json, news_items, agg_result,
                   json_written, render_result, calls>>
    /\ UNCHANGED <<sendVars, summVars>>
    /\ UNCHANGED notMainVars

\* main.py:168-171: send_briefing returned
MainSendReturned ==
    /\ mainPc = "send"
    /\ sendPc = "returned"
    /\ exit_status' = 0
    /\ mainPc' = "returned"
    /\ UNCHANGED <<dry_run, min_stories, save_json, news_items, agg_result,
                   json_written, render_result, calls>>
    /\ UNCHANGED <<sendVars, summVars>>
    /\ UNCHANGED notMainVars

----------------------------------------------------------------------------
(* _build_news_text: the item list of the prompt *)

\* summarizer.py:36 and 44
PROMPT_MAX_ITEMS     == 60
PROMPT_SUMMARY_CHARS == 300

\* the longest item list and the longest summary passed in
MaxPromptItems      == 61
MaxPromptSummaryLen == 301

\* the pieces of the f-string of summarizer.py:41-44
TAG_OPEN    == << "[" >>
TAG_SOURCE  == << "]", " ", "S", "O", "U", "R", "C", "E", ":", " " >>
TAG_TITLE   == << "\n", " ", " ", " ", " ", "T", "I", "T", "L", "E", ":", " " >>
TAG_URL     == << "\n", " ", " ", " ", " ", "U", "R", "L", ":", " " >>
TAG_SUMMARY == << "\n", " ", " ", " ", " ", "S", "U", "M", "M", "A", "R", "Y", ":", " " >>
NEWLINE     == << "\n" >>

\* str(n) for n >= 0
RECURSIVE IntToStr(_)
IntToStr(n) ==
    IF n < 10 THEN << DIGITS[n + 1] >>
    ELSE Append(IntToStr(n \div 10), DIGITS[(n % 10) + 1])

\* sep.join(parts)
RECURSIVE Join(_, _)
Join(sep, parts) ==
    IF parts = <<>> THEN <<>>
    ELSE IF Len(parts) = 1 THEN parts[1]
    ELSE parts[1] \o sep \o Join(sep, Tail(parts))

\* summarizer.py:40-45: the text of item number i
NewsLine(i, item) ==
    TAG_OPEN \o IntToStr(i) \o TAG_SOURCE \o item.source
    \o TAG_TITLE \o item.title
    \o TAG_URL \o item.url
    \o TAG_SUMMARY \o Slice(item.summary, PROMPT_SUMMARY_CHARS) \o NEWLINE

\* summarizer.py:38-45 over all the items, without the [:max_items]
build_lines_uncapped(its, max_items) ==
    [i \in 1..Len(its) |-> NewsLine(i, its[i])]

\* summarizer.py:38-45: the list `lines`
build_lines(its, max_items) ==
    LET shown == Slice(its, max_items)
    IN  [i \in 1..Len(shown) |-> NewsLine(i, shown[i])]

\* the summary lengths of the items passed in
PromptSummaryLens == {0, 1} \cup ((PROMPT_SUMMARY_CHARS - 1)..MaxPromptSummaryLen)

PromptInit ==
    /\ promptPc = "start"
    /\ \E n \in 0..MaxPromptItems, len \in PromptSummaryLens :
         prompt_items = [i \in 1..n |-> NewsItem(i, len)]
    /\ prompt_lines = <<>>
    /\ news_text = <<>>

\* summarizer.py:36-46, as called at summarizer.py:71
BuildNewsText ==
    /\ promptPc = "start"
    /\ prompt_lines' = build_lines(prompt_items, PROMPT_MAX_ITEMS)
    /\ news_text' = Join(NEWLINE, prompt_lines')
    /\ promptPc' = "done"
    /\ UNCHANGED prompt_items
    /\ UNCHANGED notPromptVars

----------------------------------------------------------------------------
(* generate_pdf: the table of contents and the category pages *)

\* pdf_generator.py:460: the page of the first category
FIRST_CATEGORY_PAGE == 4

\* pdf_generator.py:457-458: the page of the summary and the top stories
SUMMARY_PAGE == 3

\* f"{n:02d}"
Pad2(n) == IF n < 10 THEN << "0" >> \o IntToStr(n) ELSE IntToStr(n)

\* pdf_generator.py:357 without the `if v`
all_cats(cats) == cats

\* pdf_generator.py:357: [(k, v) for k, v in categories.items() if v]
non_empty_cats(cats) == SelectSeq(cats, LAMBDA kv : kv[2] # <<>>)

\* pdf_generator.py:456-464: (number, title, page) of every entry
build_toc_items(cats) ==
    LET ne == non_empty_cats(cats)
    IN  << [num |-> << "0", "1" >>, title |-> "Executive Summary", pg |-> SUMMARY_PAGE],
           [num |-> << "0", "2" >>, title |-> "Top 5 Stories", pg |-> SUMMARY_PAGE] >>
        \o [j \in 1..Len(ne) |->
              [num   |-> Pad2(FIRST_CATEGORY_PAGE + j - 1),
               title |-> ne[j][1],
               pg    |-> FIRST_CATEGORY_PAGE + j - 1]]
        \o << [num   |-> Pad2(FIRST_CATEGORY_PAGE + Len(ne)),
               title |-> "Sources & Methodology",
               pg    |-> FIRST_CATEGORY_PAGE + Len(ne)] >>

\* a cell of a row: a card, or Spacer(1, 1)
CardCell(c) == [kind |-> "card", card |-> c]
SPACER      == [kind |-> "spacer", card |-> NoCard]

\* the cards of the stories at the 0-based indexes of one parity
CardsOfParity(stories, parity) ==
    LET idxs == { j \in 1..Len(stories) : (j - 1) % 2 = parity }
        pick(k) == CHOOSE j \in idxs : Cardinality({ l \in idxs : l < j }) = k - 1
    IN  [k \in 1..Cardinality(idxs) |-> build_story_card(stories[pick(k)])]

\* pdf_generator.py:652-681 with the odd indexes in the left column
category_rows_odd_left(stories) ==
    LET cards_left  == CardsOfParity(stories, 1)
        cards_right == CardsOfParity(stories, 0)
        max_rows    == IF Len(cards_left) > Len(cards_right)
                       THEN Len(cards_left) ELSE Len(cards_right)
    IN  [r \in 1..max_rows |->
           [left  |-> IF r <= Len(cards_left) THEN CardCell(cards_left[r]) ELSE SPACER,
            right |-> IF r <= Len(cards_right) THEN CardCell(cards_right[r]) ELSE SPACER]]

\* pdf_generator.py:652-681: the rows of two cells of one category
category_rows(stories) ==
    LET cards_left  == CardsOfParity(stories, 0)
        cards_right == CardsOfParity(stories, 1)
        max_rows    == IF Len(cards_left) > Len(cards_right)
                       THEN Len(cards_left) ELSE Len(cards_right)
    IN  [r \in 1..max_rows |->
           [left  |-> IF r <= Len(cards_left) THEN CardCell(cards_left[r]) ELSE SPACER,
            right |-> IF r <= Len(cards_right) THEN CardCell(cards_right[r]) ELSE SPACER]]

\* pdf_generator.py:611-681: one section per non-empty category
build_sections(cats) ==
    LET ne == non_empty_cats(cats)
    IN  [j \in 1..Len(ne) |->
           [name  |-> ne[j][1],
            count |-> Len(ne[j][2]),
            rows  |-> category_rows(ne[j][2])]]

\* pdf_generator.py:353-681: the table of contents and the category pages
RenderDocument ==
    /\ renderPc = "doc_start"
    /\ toc_items' = build_toc_items(categories)
    /\ sections' = build_sections(categories)
    /\ renderPc' = "doc_done"
    /\ UNCHANGED <<story, card, top_stories, top_i, top_cards, categories>>
    /\ UNCHANGED notRenderVars

----------------------------------------------------------------------------
(* Specifications: one per component, the others at rest *)

AggIdle ==
    /\ aggPc = "idle" /\ fetcherIdx = 0 /\ fetched = <<>>
    /\ all_items = <<>> /\ seen_titles = {} /\ raised_fetchers = {}

SendIdle ==
    /\ sendPc = "idle"
    /\ cfgArgs = [n \in ConfigNameSet |-> PyNone]
    /\ cfgEnv = [n \in ConfigNameSet |-> PyNone]
    /\ max_retries = DefaultMaxRetries
    /\ attempt = 0 /\ outcomes = <<>> /\ delays = <<>>
    /\ last_exc = NoExc /\ sendRaised = NoExc
    /\ pdf_arg = "none" /\ msg_parts = <<>>
    /\ output_path = FALSE /\ html_written = "no"

SummIdle ==
    /\ summPc = "idle" /\ items = <<>> /\ llm_response = NoResponse
    /\ api_called = FALSE /\ summResult = NoValue /\ summRaised = "none"
    /\ has_api_key = FALSE

FetchIdle ==
    /\ fetchPc = "idle" /\ now_day = 0 /\ max_age_days = 0
    /\ feed_entries = <<>> /\ feed_limit = 0 /\ feed_items = <<>>
    /\ hn_kw = 0 /\ hn_seen = {} /\ hn_results = <<>> /\ hn_out = <<>>

RenderIdle ==
    /\ renderPc = "idle" /\ story = <<>> /\ card = NoCard
    /\ top_stories = <<>> /\ top_i = 0 /\ top_cards = <<>>
    /\ categories = <<>> /\ toc_items = <<>> /\ sections = <<>>

MainIdle ==
    /\ mainPc = "idle" /\ dry_run = FALSE /\ min_stories = 0
    /\ save_json = FALSE /\ news_items = <<>> /\ agg_result = "none"
    /\ json_written = "no" /\ render_result = "none"
    /\ calls = <<>> /\ exit_status = NoExit

NextAgg ==
    \/ FetcherReturns
    \/ FetcherRaises
    \/ AggregateReturn

NextSend ==
    \/ SendConfigError
    \/ SendBuildMessage
    \/ AttemptSucceeds
    \/ AttemptAuthError
    \/ AttemptSmtpError
    \/ AttemptOtherError
    \/ SendLoopExit

NextSumm ==
    \/ SummarizeEmpty
    \/ SummarizeNoKey
    \/ SummarizeCall

NextFetch ==
    \/ FetchFeed
    \/ FetchFeedFails
    \/ HnKeywordReturns
    \/ HnKeywordRaises
    \/ HnReturn

NextRender ==
    \/ BuildStoryCard
    \/ RenderTopStory
    \/ RenderTopDone
    \/ RenderDocument

PromptIdle ==
    /\ promptPc = "idle" /\ prompt_items = <<>>
    /\ prompt_lines = <<>> /\ news_text = <<>>

NextPrompt ==
    \/ BuildNewsText

\* main with the summarizer and the sender it calls
NextMain ==
    \/ MainAggregateRaises
    \/ MainTooFewStories
    \/ MainCallSummarize
    \/ SummarizeEmpty
    \/ SummarizeNoKey
    \/ SummarizeCall
    \/ MainSummarizeFailed
    \/ MainRenderFails
    \/ MainDryRun
    \/ MainCallSend
    \/ SendConfigError
    \/ SendBuildMessage
    \/ AttemptSucceeds
    \/ AttemptAuthError
    \/ AttemptSmtpError
    \/ AttemptOtherError
    \/ SendLoopExit
    \/ MainSendFailed
    \/ MainSendReturned

InitAgg    == AggInit /\ SendIdle /\ SummIdle /\ FetchIdle /\ RenderIdle /\ MainIdle /\ PromptIdle
InitSend   == AggIdle /\ SendInit /\ SummIdle /\ FetchIdle /\ RenderIdle /\ MainIdle /\ PromptIdle
InitSumm   == AggIdle /\ SendIdle /\ SummInit /\ FetchIdle /\ RenderIdle /\ MainIdle /\ PromptIdle
InitFetch  == AggIdle /\ SendIdle /\ SummIdle /\ FetchInit /\ RenderIdle /\ MainIdle /\ PromptIdle
InitRender == AggIdle /\ SendIdle /\ SummIdle /\ FetchIdle /\ RenderInit /\ MainIdle /\ PromptIdle
InitMain   == AggIdle /\ FetchIdle /\ RenderIdle /\ MainInit /\ PromptIdle
InitPrompt == AggIdle /\ SendIdle /\ SummIdle /\ FetchIdle /\ RenderIdle /\ MainIdle /\ PromptInit

SpecMain == InitMain /\ [][NextMain]_vars

SpecPrompt == InitPrompt /\ [][NextPrompt]_vars

SpecRender == InitRender /\ [][NextRender]_vars

SpecFetch == InitFetch /\ [][NextFetch]_vars

SpecAgg  == InitAgg /\ [][NextAgg]_vars
SpecSend == InitSend /\ [][NextSend]_vars
SpecSumm == InitSumm /\ [][NextSumm]_vars

----------------------------------------------------------------------------
(* Properties of aggregate_news *)

\* the title after lower-casing and trimming
NormTitle(item) == str_strip(str_lower(item.title))

SameTitle(x, y) == NormTitle(x) = NormTitle(y)

\* fetched[i] is the first fetched item of its group of equal titles
FirstOfGroup(i) == \A j \in 1..(i - 1) : ~SameTitle(fetched[j], fetched[i])

InOutput(item) == \E k \in 1..Len(all_items) : all_items[k] = item

NoEqualTitlesInOutput ==
    \A k, l \in 1..Len(all_items) :
        k # l => ~SameTitle(all_items[k], all_items[l])

\* C1 as stated: the output never holds two items of equal normalised title,
\* and of every group of fetched items of equal normalised title the first
\* encountered one is the one kept.
C1_FirstOfEveryGroupKept ==
    aggPc = "done" =>
        /\ NoEqualTitlesInOutput
        /\ \A i \in 1..Len(fetched) : InOutput(fetched[i]) <=> FirstOfGroup(i)

\* C1 amended: the output never holds two items of equal normalised title;
\* of every group of fetched items of equal, non-empty normalised title the
\* first encountered one is kept and no other; an item whose normalised title
\* is empty is not kept.
C1_FirstOfNonEmptyGroupKept ==
    /\ NoEqualTitlesInOutput
    /\ \A k \in 1..Len(all_items) : \E i \in 1..Len(fetched) : fetched[i] = all_items[k]
    /\ \A i \in 1..Len(fetched) :
          InOutput(fetched[i]) <=> (FirstOfGroup(i) /\ NormTitle(fetched[i]) # <<>>)

\* two fetched items whose titles differ only in case and spacing, from
\* different fetchers, of which the first is in the returned list
C1_Witness ==
    /\ aggPc = "done"
    /\ \E i, j \in 1..Len(fetched) :
          /\ i < j
          /\ fetched[i].source # fetched[j].source
          /\ fetched[i].title # fetched[j].title
          /\ NormTitle(fetched[i]) # <<>>
          /\ SameTitle(fetched[i], fetched[j])
          /\ InOutput(fetched[i])
          /\ ~InOutput(fetched[j])

----------------------------------------------------------------------------
(* Properties of send_briefing *)

\* the number of send attempts made so far
Attempts == Len(outcomes)

\* C2: with the default of 3 attempts, a send attempt follows another only
\* after a transient SMTP failure of an attempt before the third, so there
\* are at most 3 attempts; the k-th delay follows failed attempt k < 3 and
\* lasts 2^k seconds, so the delays strictly increase; a successful attempt
\* is the last one and send_briefing returns after it; failures on attempts
\* 1 and 2 and success on attempt 3 leave the delays 2 s and 4 s.
C2_BoundedRetryWithBackoff ==
    max_retries = DefaultMaxRetries =>
        /\ Attempts <= 3
        /\ \A k \in 1..Attempts :
              k < Attempts => (outcomes[k] = "smtp" /\ k < 3)
        /\ Len(delays) <= Attempts
        /\ \A k \in 1..Len(delays) :
              /\ outcomes[k] = "smtp"
              /\ k < 3
              /\ delays[k] = 2 ^ k
        /\ \A k \in 1..Attempts :
              (outcomes[k] = "smtp" /\ k < 3) => Len(delays) >= k
        /\ \A k \in 1..(Len(delays) - 1) : delays[k] < delays[k + 1]
        /\ \A k \in 1..Attempts :
              outcomes[k] = "ok" =>
                 (k = Attempts /\ sendPc = "returned" /\ Len(delays) = k - 1)
        /\ outcomes = <<"smtp", "smtp", "ok">> => delays = <<2, 4>>

\* two transient failures, then the one successful send
C2_Witness ==
    /\ max_retries = DefaultMaxRetries
    /\ sendPc = "returned"
    /\ outcomes = <<"smtp", "smtp", "ok">>
    /\ delays = <<2, 4>>

\* C3: an authentication error on any attempt is the last attempt: it is
\* raised to the caller as it is, and no delay follows it (the delays are
\* those of the transient failures before it).
C3_AuthErrorRaisedAtOnce ==
    \A k \in 1..Attempts :
        outcomes[k] = "auth" =>
            /\ k = Attempts
            /\ sendPc = "raised"
            /\ sendRaised = Exc("SMTPAuthenticationError", k)
            /\ Len(delays) = k - 1
            /\ attempt = k

\* an authentication error on the second attempt, after one transient failure
C3_Witness ==
    /\ sendPc = "raised"
    /\ outcomes = <<"smtp", "auth">>
    /\ delays = <<2>>
    /\ sendRaised.kind = "SMTPAuthenticationError"

AllTransient == \A k \in 1..Attempts : outcomes[k] = "smtp"

\* C4: with the default of 3 attempts, when every attempt fails with a
\* transient SMTP error send_briefing does not return normally; it raises
\* only after exactly 3 attempts and exactly the 2 delays 2 s and 4 s (none
\* after the third attempt), and what it raises is the third attempt's error.
C4_AllTransientThenFatal ==
    (max_retries = DefaultMaxRetries /\ Attempts > 0 /\ AllTransient) =>
        /\ sendPc # "returned"
        /\ Attempts = 3 => (delays = <<2, 4>> /\ attempt > max_retries)
        /\ sendPc = "raised" =>
              /\ Attempts = 3
              /\ delays = <<2, 4>>
              /\ sendRaised = Exc("SMTPException", 3)

\* three transient failures, then the error of the third is raised
C4_Witness ==
    /\ max_retries = DefaultMaxRetries
    /\ sendPc = "raised"
    /\ outcomes = <<"smtp", "smtp", "smtp">>
    /\ sendRaised = Exc("SMTPException", 3)

\* neither passed as argument nor present in the environment
Unset(n) == cfgArgs[n] = PyNone /\ cfgEnv[n] = PyNone

\* no usable value: unset or empty, as argument and in the environment
NoValueFor(n) == cfgArgs[n] \in {PyNone, ""} /\ cfgEnv[n] \in {PyNone, ""}

\* C5: when a configuration value is unset, send_briefing raises a
\* ValueError before any send attempt; the error names, in the fixed order
\* and once each, exactly the values that have no usable value (every unset
\* one among them).
C5_MissingConfigIsFatal ==
    ((\E n \in ConfigNameSet : Unset(n)) /\ sendPc # "start") =>
        /\ sendPc = "raised"
        /\ sendRaised.kind = "ValueError"
        /\ Attempts = 0 /\ attempt = 0 /\ delays = <<>>
        /\ \A n \in ConfigNameSet :
              (\E i \in 1..Len(sendRaised.names) : sendRaised.names[i] = n)
                  <=> NoValueFor(n)
        /\ \A n \in ConfigNameSet :
              Unset(n) => \E i \in 1..Len(sendRaised.names) : sendRaised.names[i] = n
        /\ \A i, j \in 1..Len(sendRaised.names) :
              i < j => \E a, b \in 1..Len(CONFIG_NAMES) :
                          /\ a < b
                          /\ CONFIG_NAMES[a] = sendRaised.names[i]
                          /\ CONFIG_NAMES[b] = sendRaised.names[j]

\* the recipient and the credential are unset, the sender is given
C5_Witness ==
    /\ sendPc = "raised"
    /\ Unset("RECIPIENT_EMAIL")
    /\ Unset("GMAIL_APP_PASSWORD")
    /\ cfgEnv["SENDER_EMAIL"] = "value"
    /\ sendRaised.names = <<"RECIPIENT_EMAIL", "GMAIL_APP_PASSWORD">>

----------------------------------------------------------------------------
(* Properties of categorize_and_summarize *)

CategoryNames == { CATEGORIES[i] : i \in 1..Len(CATEGORIES) }

\* equality of two scalar JSON values
SameScalar(a, b) == a.t = b.t /\ (a.t = "str" => a.s = b.s)

\* a dict with the three top-level keys: a summary, a list of top stories
\* that are dicts and a dict of categories whose entries are dicts
StructurallyValid(b) ==
    /\ b.t = "obj"
    /\ {"executive_summary", "top_stories", "categories"} \subseteq DictKeys(b.o)
    /\ DictGet(b.o, "top_stories").t = "arr"
    /\ \A i \in 1..Len(DictGet(b.o, "top_stories").a) :
          DictGet(b.o, "top_stories").a[i].t = "obj"
    /\ DictGet(b.o, "categories").t = "obj"
    /\ \A c \in 1..Len(DictGet(b.o, "categories").o) :
          LET v == DictGet(b.o, "categories").o[c][2]
          IN  v.t = "arr" => \A i \in 1..Len(v.a) : v.a[i].t = "obj"

\* the response is a JSON object whose story entries are all objects
RequiredShape(v) ==
    /\ v.t = "obj"
    /\ (DictHas(v.o, "top_stories") /\ DictGet(v.o, "top_stories").t = "arr") =>
          \A i \in 1..Len(DictGet(v.o, "top_stories").a) :
              DictGet(v.o, "top_stories").a[i].t = "obj"
    /\ (DictHas(v.o, "categories") /\ DictGet(v.o, "categories").t = "obj") =>
          \A c \in 1..Len(DictGet(v.o, "categories").o) :
              LET w == DictGet(v.o, "categories").o[c][2]
              IN  /\ w.t \in {"arr", "str", "obj"}
                  /\ w.t = "arr" => \A i \in 1..Len(w.a) : w.a[i].t = "obj"
                  /\ w.t = "str" => w.s = <<>>
                  /\ w.t = "obj" => w.o = <<>>

\* C6: whatever text the capability returns, categorize_and_summarize
\* returns a structurally valid Briefing and does not raise; text that is
\* not JSON of the required shape yields the fallback Briefing.
C6_EveryResponseYieldsBriefing ==
    llm_response.kind = "text" =>
        /\ summPc = "returned"
        /\ summRaised = "none"
        /\ StructurallyValid(summResult)
        /\ (~llm_response.parses \/ ~RequiredShape(llm_response.value)) =>
              summResult = fallback_result(items)

\* the categories dict of the returned Briefing
ResultCategories == DictGet(summResult.o, "categories").o

\* the categories dict of the parsed response, empty when it has none
ResponseCategories ==
    LET v == llm_response.value
    IN  IF v.t = "obj" /\ DictHas(v.o, "categories")
           /\ DictGet(v.o, "categories").t = "obj"
        THEN DictGet(v.o, "categories").o
        ELSE <<>>

\* C7: every Briefing returned has all 7 category names as keys of its
\* categories map; a name the response did not supply maps to the empty
\* list, and every key the response supplied, one of the 7 or not, is kept
\* with a list of as many stories as the response gave.
C7_AllCategoriesPresent ==
    summPc = "returned" =>
        /\ Len(CATEGORIES) = 7
        /\ CategoryNames \subseteq DictKeys(ResultCategories)
        /\ (llm_response.kind = "text" /\ llm_response.parses) =>
              /\ \A c \in CategoryNames :
                    ~DictHas(ResponseCategories, c) =>
                        DictGet(ResultCategories, c) = JArr(<<>>)
              /\ \A k \in DictKeys(ResponseCategories) :
                    /\ DictHas(ResultCategories, k)
                    /\ DictGet(ResultCategories, k).t = DictGet(ResponseCategories, k).t
                    /\ DictGet(ResponseCategories, k).t = "arr" =>
                          Len(DictGet(ResultCategories, k).a)
                              = Len(DictGet(ResponseCategories, k).a)
              /\ DictKeys(ResultCategories)
                    = CategoryNames \cup DictKeys(ResponseCategories)

\* a response that supplies one of the 7 names and one extra key
C7_Witness ==
    /\ summPc = "returned"
    /\ llm_response.parses
    /\ DictKeys(ResponseCategories) = {"Extra Category", "Research Breakthroughs"}
    /\ Len(DictGet(ResultCategories, "Extra Category").a) = 1
    /\ DictGet(ResultCategories, "Other AI & Tech News") = JArr(<<>>)

\* the top stories of the returned Briefing
ResultTop == DictGet(summResult.o, "top_stories").a

\* C8: every Briefing returned has at most 5 top stories.
C8_AtMostFiveTopStories ==
    summPc = "returned" => Len(ResultTop) <= 5

\* the stories of the named category of the returned Briefing
ResultCategory(c) == DictGet(ResultCategories, c).a

\* the value of field f of story dict d, as a string
Field(d, f) == DictGet(d.o, f).s

\* C9: on an unparsable response the Briefing is determined by the item
\* list: the catch-all category holds the first min(n,40) items in order,
\* the other 6 categories are empty, the top stories are the first min(n,5)
\* items in order with the first 150 characters of the summary as reason,
\* and the executive summary is the fixed placeholder.
C9_FallbackFromItemsOnly ==
    (summPc = "returned" /\ llm_response.kind = "text" /\ ~llm_response.parses) =>
        LET n == Len(items)
        IN  /\ DictKeys(summResult.o) = {"executive_summary", "top_stories", "categories"}
            /\ DictGet(summResult.o, "executive_summary") = JStr(FALLBACK_SUMMARY)
            /\ DictKeys(ResultCategories) = CategoryNames
            /\ \A c \in CategoryNames \ {"Other AI & Tech News"} :
                  DictGet(ResultCategories, c) = JArr(<<>>)
            /\ Len(ResultCategory("Other AI & Tech News")) = Min(n, 40)
            /\ \A i \in 1..Min(n, 40) :
                  LET d == ResultCategory("Other AI & Tech News")[i]
                  IN  /\ DictKeys(d.o) = {"title", "url", "source", "summary"}
                      /\ Field(d, "title") = items[i].title
                      /\ Field(d, "url") = items[i].url
                      /\ Field(d, "source") = items[i].source
                      /\ Field(d, "summary") = items[i].summary
            /\ Len(ResultTop) = Min(n, 5)
            /\ \A i \in 1..Min(n, 5) :
                  LET d == ResultTop[i]
                  IN  /\ DictKeys(d.o) = {"title", "url", "source", "reason"}
                      /\ Field(d, "title") = items[i].title
                      /\ Field(d, "url") = items[i].url
                      /\ Field(d, "source") = items[i].source
                      /\ Len(Field(d, "reason")) = Min(150, Len(items[i].summary))
                      /\ \A j \in 1..Len(Field(d, "reason")) :
                            Field(d, "reason")[j] = items[i].summary[j]

\* more than 40 items with summaries of more than 150 characters
C9_Witness ==
    /\ summPc = "returned"
    /\ llm_response = Unparsable
    /\ Len(items) > 40
    /\ Len(items[1].summary) > 150
    /\ Len(ResultCategory("Other AI & Tech News")) = 40
    /\ Len(Field(ResultTop[5], "reason")) = 150

\* story dict d has the three common fields and lastKey; checked against
\* the response's story dict r: a field r has is as r gave it, a field r
\* lacks has its default
Defaulted(d, r, lastKey) ==
    /\ {"title", "url", "source", lastKey} \subseteq DictKeys(d.o)
    /\ DictKeys(r.o) \subseteq DictKeys(d.o)
    /\ \A f \in DictKeys(r.o) : SameScalar(DictGet(d.o, f), DictGet(r.o, f))
    /\ ~DictHas(r.o, "title") => DictGet(d.o, "title") = JStr(<<"U","n","t","i","t","l","e","d">>)
    /\ ~DictHas(r.o, "url") => DictGet(d.o, "url") = JStr(<<"#">>)
    /\ ~DictHas(r.o, "source") => DictGet(d.o, "source") = JStr(<<"U","n","k","n","o","w","n">>)
    /\ ~DictHas(r.o, lastKey) => DictGet(d.o, lastKey) = JStr(<<>>)

\* the top stories the parsed response supplied, empty when it has no list
ResponseTop ==
    LET v == llm_response.value
    IN  IF v.t = "obj" /\ DictHas(v.o, "top_stories")
           /\ DictGet(v.o, "top_stories").t = "arr"
        THEN DictGet(v.o, "top_stories").a
        ELSE <<>>

\* C10: in every Briefing returned, every top story has title, url, source
\* and reason and every category story has title, url, source and summary;
\* against a parsed response, a field the response supplied is as given and
\* a field it omitted has its default.
C10_StoriesNormalized ==
    summPc = "returned" =>
        /\ \A i \in 1..Len(ResultTop) :
              {"title", "url", "source", "reason"} \subseteq DictKeys(ResultTop[i].o)
        /\ \A c \in 1..Len(ResultCategories) :
              ResultCategories[c][2].t = "arr" =>
                 \A i \in 1..Len(ResultCategories[c][2].a) :
                    {"title", "url", "source", "summary"}
                        \subseteq DictKeys(ResultCategories[c][2].a[i].o)
        /\ (llm_response.kind = "text" /\ llm_response.parses) =>
              /\ Len(ResultTop) = Len(ResponseTop)
              /\ \A i \in 1..Len(ResponseTop) :
                    Defaulted(ResultTop[i], ResponseTop[i], "reason")
              /\ \A k \in DictKeys(ResponseCategories) :
                    DictGet(ResponseCategories, k).t = "arr" =>
                       \A i \in 1..Len(DictGet(ResponseCategories, k).a) :
                          Defaulted(DictGet(ResultCategories, k).a[i],
                                    DictGet(ResponseCategories, k).a[i], "summary")

\* a response whose first top story has only a title and whose second has
\* a null title
C10_Witness ==
    /\ summPc = "returned"
    /\ llm_response.parses
    /\ Len(ResponseTop) = 2
    /\ DictKeys(ResponseTop[1].o) = {"title"}
    /\ DictGet(ResultTop[1].o, "url") = JStr(<<"#">>)
    /\ DictGet(ResultTop[1].o, "title") = JStr(<<"p">>)
    /\ DictGet(ResultTop[2].o, "title").t = "null"
    /\ DictGet(ResultTop[2].o, "reason") = JStr(<<>>)

\* C11: on an empty item list categorize_and_summarize returns the all-empty
\* Briefing (no top stories, the 7 categories each empty), whether or not an
\* API key is available, and the external capability is not called; the
\* capability is called only on a non-empty list.
C11_EmptyInputShortCircuits ==
    /\ api_called => items # <<>>
    /\ (items = <<>> /\ summPc # "start" /\ summPc # "idle") =>
          /\ summPc = "returned"
          /\ summRaised = "none"
          /\ ~api_called
          /\ llm_response = NoResponse
          /\ DictKeys(summResult.o) = {"executive_summary", "top_stories", "categories"}
          /\ ResultTop = <<>>
          /\ DictKeys(ResultCategories) = CategoryNames
          /\ Len(ResultCategories) = 7
          /\ \A c \in CategoryNames : DictGet(ResultCategories, c) = JArr(<<>>)

\* the empty list is summarized with no API key available
C11_Witness ==
    /\ items = <<>>
    /\ ~has_api_key
    /\ summPc = "returned"
    /\ ResultTop = <<>>

----------------------------------------------------------------------------
(* Properties of the message send_briefing builds *)

\* the number of PDF attachments of msg
PdfParts == Cardinality({ i \in 1..Len(msg_parts) : msg_parts[i] = "pdf" })

\* C18: with the configuration complete, send_briefing builds the message
\* and enters the send loop whatever pdf_path is: with no path or a path to
\* no file the message has the body and no attachment, with an existing
\* file exactly one PDF attachment; every send attempt is made with the
\* message so built.
C18_MissingPdfStillSends ==
    /\ (sendPc \in {"loop", "returned"} \/ Attempts > 0) =>
          /\ msg_parts # <<>>
          /\ msg_parts[1] = "body"
          /\ pdf_arg \in {"none", "missing"} => PdfParts = 0
          /\ pdf_arg = "present" => (PdfParts = 1 /\ msg_parts = <<"body", "pdf">>)
    /\ (sendPc = "raised" /\ Attempts = 0 /\ max_retries > 0) =>
          sendRaised.kind = "ValueError"

\* the file is missing and the email is sent on the first attempt
C18_Witness ==
    /\ pdf_arg = "missing"
    /\ sendPc = "returned"
    /\ outcomes = <<"ok">>
    /\ msg_parts = <<"body">>

----------------------------------------------------------------------------
(* Properties of aggregate_news under failing fetchers, and of its order *)

\* the index of a fetcher in FETCHERS
FetcherIndex(name) == CHOOSE i \in 1..Len(FETCHERS) : FETCHERS[i] = name

\* the position in all_items of an item that is in it
OutputPos(item) == CHOOSE k \in 1..Len(all_items) : all_items[k] = item

----------------------------------------------------------------------------
(* Properties of the fetchers *)

\* item `it` has a known publish time more than max_age_days before now
TooOld(it) == it.published.known /\ now_day - it.published.day > max_age_days

\* C15: no item with a known publish time older than max_age_days is in
\* the list _fetch_feed returns, nor in the list fetch_hackernews returns,
\* whatever the feed holds and whatever the search API answers.
C15_NoItemOlderThanWindow ==
    /\ \A i \in 1..Len(feed_items) : ~TooOld(feed_items[i])
    /\ \A i \in 1..Len(hn_out) : ~TooOld(hn_out[i])

----------------------------------------------------------------------------
(* Properties of the renderer *)

\* the title and the summary _build_story_card reads from the story
StoryTitle   == IF DictHas(story, "title") THEN DictGet(story, "title") ELSE DEFAULT_TITLE
StorySummary == IF DictHas(story, "summary") THEN DictGet(story, "summary") ELSE <<>>

\* `shown` is the first `limit` characters of `text`, followed by one
\* ellipsis when `text` is longer than `limit` and by nothing otherwise
FirstCharsWithEllipsis(shown, text, limit) ==
    LET kept == IF Len(text) > limit THEN limit ELSE Len(text)
    IN  /\ \A j \in 1..kept : shown[j] = text[j]
        /\ (Len(text) > limit) => (Len(shown) = limit + 1 /\ shown[limit + 1] = "U+2026")
        /\ (Len(text) <= limit) => shown = text

\* C19: in a category card the displayed title is the first 120 characters
\* of the story title and the displayed summary is the first 280 characters
\* of the story summary; the ellipsis is appended exactly when the original
\* is longer than the limit, never at or below it.
C19_CardTextsTruncatedWithEllipsis ==
    renderPc = "card_done" =>
        /\ FirstCharsWithEllipsis(card.title_display, StoryTitle, 120)
        /\ FirstCharsWithEllipsis(card.summary_display, StorySummary, 280)

\* a card with a title over the limit and a summary exactly at the limit
C19_Witness ==
    /\ renderPc = "card_done"
    /\ Len(StoryTitle) = 121 /\ Len(card.title_display) = 121
    /\ Len(StorySummary) = 280 /\ Len(card.summary_display) = 280

\* C20: the title rendered for a top story in the top-5 section never
\* exceeds 120 characters, whatever the length of the story's title.
C20_TopTitleAtMost120 ==
    \A i \in 1..Len(top_cards) : Len(top_cards[i].title_text) <= 120

----------------------------------------------------------------------------
(* Properties of main *)

\* step `name` has been invoked
Called(name) == \E i \in 1..Len(calls) : calls[i] = name

\* the step invoked last
LastCall == calls[Len(calls)]

\* C12: a failure of the API call is re-raised by categorize_and_summarize
\* and never turned into the fallback briefing (no briefing is returned at
\* all); main then returns 1 and neither renders the report nor sends the
\* email.
C12_ApiFailurePropagates ==
    llm_response.kind = "api_error" =>
        /\ summPc = "raised"
        /\ summRaised = "APIError"
        /\ summResult = NoValue
        /\ ~Called("render") /\ ~Called("send")
        /\ render_result = "none" /\ sendPc = "idle"
        /\ mainPc \in {"summarize", "returned"}
        /\ mainPc = "returned" => exit_status = 1

\* main has returned 1 after the API call failed
C12_Witness ==
    /\ llm_response.kind = "api_error"
    /\ api_called
    /\ mainPc = "returned"
    /\ exit_status = 1
    /\ calls = <<"aggregate", "summarize">>

\* C16: with fewer aggregated items than the minimum, main returns 1 and
\* calls neither summarization nor rendering nor delivery; with at least
\* the minimum, main goes on to summarization.
C16_MinimumStoriesGate ==
    agg_result = "returned" =>
        /\ Len(news_items) < min_stories =>
              /\ mainPc = "returned" /\ exit_status = 1
              /\ calls = <<"aggregate">>
              /\ summPc = "idle" /\ render_result = "none" /\ sendPc = "idle"
        /\ Len(news_items) >= min_stories =>
              /\ Len(calls) >= 2 /\ calls[2] = "summarize"
              /\ summPc # "idle" /\ items = news_items

\* one item short of the minimum: main has returned 1
C16_Witness ==
    /\ agg_result = "returned"
    /\ Len(news_items) = 1 /\ min_stories = 2
    /\ mainPc = "returned" /\ exit_status = 1

\* every step of the run completed without a fatal error
AllStepsCompleted ==
    /\ agg_result = "returned"
    /\ Len(news_items) >= min_stories
    /\ summPc = "returned"
    /\ render_result = "returned"
    /\ dry_run \/ sendPc = "returned"

\* C17: main returns 0 exactly when aggregation, the minimum check,
\* summarization, rendering and (unless dry run) delivery all completed
\* without a fatal error, and 1 otherwise; after a step has failed no
\* further step is invoked.
C17_ExitStatus ==
    /\ mainPc = "returned" =>
          /\ exit_status \in {0, 1}
          /\ exit_status = 0 <=> AllStepsCompleted
    /\ mainPc # "returned" => exit_status = NoExit
    /\ agg_result = "raised" => calls = <<"aggregate">>
    /\ (agg_result = "returned" /\ Len(news_items) < min_stories) =>
          calls = <<"aggregate">>
    /\ summPc = "raised" => LastCall = "summarize"
    /\ render_result = "raised" => LastCall = "render"
    /\ sendPc = "raised" => LastCall = "send"

\* a full run with delivery that returned 0
C17_Witness ==
    /\ mainPc = "returned" /\ exit_status = 0
    /\ ~dry_run
    /\ calls = <<"aggregate", "summarize", "render", "send">>
    /\ outcomes # <<>> /\ outcomes[Len(outcomes)] = "ok"

----------------------------------------------------------------------------
(* Properties of aggregate_news for items without a title *)

\* the normalised title of the item is empty
Blank(item) == NormTitle(item) = <<>>

\* the items of seq that no earlier item of seq equals in normalised title
RECURSIVE FirstsOf(_, _)
FirstsOf(seq, acc) ==
    IF seq = <<>> THEN acc
    ELSE IF \E k \in 1..Len(acc) : SameTitle(acc[k], Head(seq))
         THEN FirstsOf(Tail(seq), acc)
         ELSE FirstsOf(Tail(seq), Append(acc, Head(seq)))

\* the fetched items with a title
NonBlankFetched == SelectSeq(fetched, LAMBDA it : ~Blank(it))

\* C29: an item whose title is empty or only whitespace is never in the
\* output of aggregate_news, the first such item included, and the output
\* is what it would be had these items not been fetched at all.
C29_BlankTitlesNeverKept ==
    /\ \A k \in 1..Len(all_items) : ~Blank(all_items[k])
    /\ \A k \in 1..Len(all_items) : all_items[k].title # <<>>
    /\ all_items = FirstsOf(NonBlankFetched, <<>>)

\* the first fetched item has a whitespace-only title and is dropped, and
\* a later item with a title is kept
C29_Witness ==
    /\ aggPc = "done"
    /\ Len(fetched) >= 2
    /\ fetched[1].title = <<" ">>
    /\ ~InOutput(fetched[1])
    /\ ~Blank(fetched[2]) /\ InOutput(fetched[2])

----------------------------------------------------------------------------
(* Properties of _fetch_feed for entries without a publish time *)

\* entry p of the feed passes the age filter
PassesAgeFilter(p) ==
    \/ ~feed_entries[p].published_parsed.known
    \/ now_day - feed_entries[p].published_parsed.day <= max_age_days

\* the number of entries before p that pass the age filter
PassingBefore(p) ==
    Cardinality({ q \in 1..(p - 1) : PassesAgeFilter(q) })

\* entry p of the feed is in the returned list
Returned(p) ==
    \E k \in 1..Len(feed_items) : feed_items[k].url = feed_entries[p].link

\* C30: a feed entry without a parsed publish time has age 0 for
\* _fetch_feed, so for every max_age_days >= 0 it is returned whenever it
\* is among the first 2 * limit entries and fewer than limit passing
\* entries precede it, whatever its real age.
C30_UndatedEntryPassesFilter ==
    fetchPc = "feed_done" =>
        \A p \in 1..Len(feed_entries) :
            ~feed_entries[p].published_parsed.known =>
                /\ age_days(feed_entries[p].published_parsed) = 0
                /\ Returned(p) <=>
                      (p <= 2 * feed_limit /\ PassingBefore(p) < feed_limit)

\* with a window of 0 days an entry without a time is returned while an
\* entry that is a day old is not
C30_Witness ==
    /\ fetchPc = "feed_done"
    /\ max_age_days = 0
    /\ \E p, q \in 1..Len(feed_entries) :
          /\ ~feed_entries[p].published_parsed.known
          /\ Returned(p)
          /\ feed_entries[q].published_parsed.known
          /\ now_day - feed_entries[q].published_parsed.day = 1
          /\ ~Returned(q)

----------------------------------------------------------------------------
(* Properties of the order of the steps of main, and of its debug files *)

\* the steps of a full run
PIPELINE == << "aggregate", "summarize", "render", "send" >>

\* C22: the steps of main are invoked in the order aggregate, summarize,
\* render, send, each at most once and each only after every earlier step
\* succeeded; in a dry run send is never invoked, and a dry run that
\* returns 0 has rendered the report.
C22_StepsInOrder ==
    /\ Len(calls) <= Len(PIPELINE)
    /\ \A i \in 1..Len(calls) : calls[i] = PIPELINE[i]
    /\ Called("summarize") =>
          (agg_result = "returned" /\ Len(news_items) >= min_stories)
    /\ Called("render") => summPc = "returned"
    /\ Called("send") => render_result = "returned"
    /\ dry_run => ~Called("send") /\ sendPc = "idle"
    /\ (dry_run /\ mainPc = "returned" /\ exit_status = 0) =>
          (calls = <<"aggregate", "summarize", "render">>
           /\ render_result = "returned")

\* a dry run that rendered the report and returned 0 without sending
C22_Witness ==
    /\ dry_run
    /\ mainPc = "returned" /\ exit_status = 0
    /\ calls = <<"aggregate", "summarize", "render">>
    /\ sendPc = "idle" /\ outcomes = <<>>

\* C24: a failed write of the HTML side file does not end send_briefing:
\* the message is built and the send attempts are made as without it; a
\* failed write of the briefing JSON does not end main: rendering is
\* invoked next; and the status main returns depends on the other steps
\* only, so it is 0 when they all succeed.
C24_DebugFileFailuresIgnored ==
    /\ html_written = "failed" =>
          /\ sendPc \in {"loop", "returned", "raised"}
          /\ msg_parts # <<>>
          /\ sendPc = "raised" => (outcomes # <<>> /\ sendRaised.attempt >= 1)
          /\ sendPc = "returned" =>
                (outcomes # <<>> /\ outcomes[Len(outcomes)] = "ok")
    /\ json_written = "failed" => Called("render")
    /\ (mainPc = "returned" /\ AllStepsCompleted) => exit_status = 0

\* both writes failed, the email was sent and main returned 0
C24_Witness ==
    /\ json_written = "failed"
    /\ html_written = "failed"
    /\ mainPc = "returned" /\ exit_status = 0
    /\ outcomes # <<>> /\ outcomes[Len(outcomes)] = "ok"

----------------------------------------------------------------------------
(* Properties of send_briefing for every kind of error and retry count *)

\* attempt k failed with an error that is not an authentication error
TransportErrorAt(k) == outcomes[k] \in {"smtp", "oserror"}

\* C23: every transport error of a send attempt other than an
\* authentication error, the connection-level errors that are no SMTP
\* protocol exceptions included, is retried with backoff while attempts
\* remain: the send does not end on it, and the delay 2^k follows it.
C23_EveryTransportErrorRetried ==
    \A k \in 1..Attempts :
        (TransportErrorAt(k) /\ k < max_retries) =>
            /\ sendPc = "loop" \/ k < Attempts
            /\ Len(delays) >= k /\ delays[k] = 2 ^ k

\* the number of successful attempts
Successes == Cardinality({ k \in 1..Attempts : outcomes[k] = "ok" })

\* C28: whenever send_briefing returns normally, exactly one send attempt
\* has succeeded, for every value of max_retries, 0 and negative values
\* included.
C28_ReturnMeansSent ==
    sendPc = "returned" => Successes = 1

----------------------------------------------------------------------------
(* Properties of the prompt *)

\* the decimal numeral of a number below 100
Decimal(n) ==
    IF n < 10 THEN << DIGITS[n + 1] >>
    ELSE << DIGITS[(n \div 10) + 1], DIGITS[(n % 10) + 1] >>

\* the first n characters of s
FirstChars(s, n) == [j \in 1..(IF Len(s) < n THEN Len(s) ELSE n) |-> s[j]]

\* the number of items the prompt lists
Listed == IF Len(prompt_items) < 60 THEN Len(prompt_items) ELSE 60

\* the position before line i in the text
RECURSIVE LineOffset(_)
LineOffset(i) ==
    IF i = 1 THEN 0 ELSE LineOffset(i - 1) + Len(prompt_lines[i - 1]) + 1

\* C25: the prompt lists exactly the first min(n, 60) input items in input
\* order, numbered from 1, each with its source, its title, its URL and
\* the first 300 characters of its summary; items after the 60th are not
\* listed.
C25_PromptListsFirstSixty ==
    promptPc = "done" =>
        /\ Len(prompt_lines) = Listed
        /\ \A i \in 1..Len(prompt_lines) :
              /\ prompt_lines[i] =
                    <<"[">> \o Decimal(i) \o TAG_SOURCE \o prompt_items[i].source
                    \o TAG_TITLE \o prompt_items[i].title
                    \o TAG_URL \o prompt_items[i].url
                    \o TAG_SUMMARY \o FirstChars(prompt_items[i].summary, 300)
                    \o <<"\n">>
              /\ SubSeq(news_text, LineOffset(i) + 1,
                        LineOffset(i) + Len(prompt_lines[i])) = prompt_lines[i]
        /\ Len(news_text) =
              IF prompt_lines = <<>> THEN 0
              ELSE LineOffset(Len(prompt_lines)) + Len(prompt_lines[Len(prompt_lines)])

\* 61 items with summaries of 301 characters: 60 are listed, the summary
\* of each cut to 300 characters
C25_Witness ==
    /\ promptPc = "done"
    /\ Len(prompt_items) = 61
    /\ Len(prompt_items[60].summary) = 301
    /\ Len(prompt_lines) = 60
    /\ prompt_lines[60][Len(prompt_lines[60]) - 1] = prompt_items[60].summary[300]
    /\ prompt_lines[60][2] = "6" /\ prompt_lines[60][3] = "0"

----------------------------------------------------------------------------
(* Properties of the colours *)

\* the source name a card is built from
SourceOf(st) == IF DictHas(st, "source") THEN DictGet(st, "source") ELSE DEFAULT_SOURCE

\* the colours the palette holds for a source name, gray for a name it
\* does not hold
PaletteOrGray(src) ==
    IF \E e \in 1..Len(SOURCE_COLORS) : SOURCE_COLORS[e][1] = src
    THEN SOURCE_COLORS[CHOOSE e \in 1..Len(SOURCE_COLORS) : SOURCE_COLORS[e][1] = src][2]
    ELSE << "#374151", "#E5E7EB" >>

\* the colours of the five ranks
RankColors ==
    << << "#B45309", "#FEF3C7" >>, << "#4338CA", "#EDE9FE" >>,
       << "#065F46", "#D1FAE5" >>, << "#C2410C", "#FFEDD5" >>,
       << "#6B21A8", "#F3E8FF" >> >>

\* C26: colour assignment is total: the top story at rank i (from 0) gets
\* entry i mod 5 of the list of five colours, and a source badge gets the
\* palette entry of the source name or, for a name the palette does not
\* hold, the default gray pair; every lookup yields a pair of colours.
C26_ColorsAreTotal ==
    /\ Len(TOP_STORY_COLORS) = 5
    /\ \A i \in 1..Len(top_cards) :
          /\ top_cards[i].colors = RankColors[((i - 1) % 5) + 1]
          /\ top_cards[i].src_colors = PaletteOrGray(SourceOf(top_stories[i]))
    /\ renderPc = "card_done" =>
          /\ card.src_colors = PaletteOrGray(SourceOf(story))
          /\ SourceOf(story) = SRC_WIRED => card.src_colors = << "#0099AA", "#CCFFFF" >>
          /\ SourceOf(story) \in {SRC_LOWER_WIRED, SRC_OTHER, DEFAULT_SOURCE} =>
                card.src_colors = << "#374151", "#E5E7EB" >>

\* five top stories are rendered, the fifth in the fifth colour, one with
\* the colours of a palette source and one in the default gray
C26_Witness ==
    /\ renderPc = "top_done"
    /\ Len(top_cards) = 5
    /\ top_cards[5].colors = << "#6B21A8", "#F3E8FF" >>
    /\ \E i, j \in 1..5 :
          /\ SourceOf(top_stories[i]) = SRC_HACKER_NEWS
          /\ top_cards[i].src_colors = << "#FF6600", "#FFE5CC" >>
          /\ SourceOf(top_stories[j]) = SRC_OTHER
          /\ top_cards[j].src_colors = << "#374151", "#E5E7EB" >>

----------------------------------------------------------------------------
(* Properties of the table of contents and of the category pages *)

\* the names of the categories that hold a story, in the order of the dict
RECURSIVE NamesWithStories(_)
NamesWithStories(cats) ==
    IF cats = <<>> THEN <<>>
    ELSE IF Len(Head(cats)[2]) > 0
         THEN <<Head(cats)[1]>> \o NamesWithStories(Tail(cats))
         ELSE NamesWithStories(Tail(cats))

\* the stories of the category of that name
StoriesOf(name) ==
    categories[CHOOSE p \in 1..Len(categories) : categories[p][1] = name][2]

\* C21: after the entries of the executive summary and of the top stories
\* the table of contents lists exactly the non-empty categories in the
\* order of the dict, never an empty one, on pages 4, 5, ... one page
\* each, and then the sources page on page 4 plus the number of non-empty
\* categories; the report has one section per listed category, in the
\* same order.
C21_TocListsNonEmptyCategories ==
    renderPc = "doc_done" =>
        LET names == NamesWithStories(categories)
            k     == Len(names)
        IN  /\ Len(toc_items) = k + 3
            /\ toc_items[1].title = "Executive Summary"
            /\ toc_items[2].title = "Top 5 Stories"
            /\ \A j \in 1..k :
                  /\ toc_items[2 + j].title = names[j]
                  /\ toc_items[2 + j].pg = 3 + j
                  /\ StoriesOf(toc_items[2 + j].title) # <<>>
            /\ toc_items[k + 3].title = "Sources & Methodology"
            /\ toc_items[k + 3].pg = 4 + k
            /\ Len(sections) = k
            /\ \A j \in 1..k : sections[j].name = toc_items[2 + j].title

\* the dict holds a category with stories, then an empty one, then one
\* with stories, not in the order of CATEGORIES: two entries on pages 4
\* and 5 and the sources page on page 6
C21_Witness ==
    /\ renderPc = "doc_done"
    /\ categories[1][1] = CATEGORIES[3]
    /\ categories[1][2] # <<>> /\ categories[2][2] = <<>> /\ categories[3][2] # <<>>
    /\ Len(toc_items) = 5
    /\ toc_items[3].title = CATEGORIES[3] /\ toc_items[3].pg = 4
    /\ toc_items[4].title = CATEGORIES[2] /\ toc_items[4].pg = 5
    /\ toc_items[5].pg = 6
    /\ Len(sections) = 2

\* the cell that shows story j of the section
CellOf(sec, j) ==
    IF j % 2 = 1 THEN sec.rows[(j + 1) \div 2].left ELSE sec.rows[j \div 2].right

\* the number of cells of the section that show that card
CellsShowing(sec, c) ==
    Cardinality({ r \in 1..Len(sec.rows) : sec.rows[r].left = CardCell(c) })
    + Cardinality({ r \in 1..Len(sec.rows) : sec.rows[r].right = CardCell(c) })

\* C27: a category of n stories is laid out in ceil(n/2) rows; row r (from
\* 0) holds the card of story 2r on the left and of story 2r+1 on the
\* right; for odd n the right cell of the last row is a spacer; every
\* story is in exactly one cell.
C27_TwoColumnRows ==
    renderPc = "doc_done" =>
        \A s \in 1..Len(sections) :
            LET sec     == sections[s]
                stories == StoriesOf(sec.name)
                n       == Len(stories)
            IN  /\ Len(sec.rows) = (n + 1) \div 2
                /\ \A r \in 0..(Len(sec.rows) - 1) :
                      /\ sec.rows[r + 1].left = CardCell(build_story_card(stories[2 * r + 1]))
                      /\ 2 * r + 2 <= n =>
                            sec.rows[r + 1].right = CardCell(build_story_card(stories[2 * r + 2]))
                      /\ 2 * r + 2 > n => sec.rows[r + 1].right.kind = "spacer"
                /\ n % 2 = 1 => sec.rows[Len(sec.rows)].right.kind = "spacer"
                /\ n % 2 = 0 => sec.rows[Len(sec.rows)].right.kind = "card"
                /\ \A j \in 1..n :
                      CellsShowing(sec, build_story_card(stories[j])) = 1

\* a category of three stories: two rows, the second with a spacer on the
\* right
C27_Witness ==
    /\ renderPc = "doc_done"
    /\ \E s \in 1..Len(sections) :
          /\ sections[s].count = 3
          /\ Len(sections[s].rows) = 2
          /\ sections[s].rows[1].right.kind = "card"
          /\ sections[s].rows[2].left.kind = "card"
          /\ sections[s].rows[2].right.kind = "spacer"

====
